---- MODULE Spec2Model ----
(***************************************************************************)
(* A model of protozero-rs: the varint reader and the zigzag decoders      *)
(* (src/src/encoding.rs), the field cursor Fields (src/src/message.rs),    *)
(* and the accessors, the packed iterators and the Repeated adapter        *)
(* (src/src/field.rs).                                                     *)
(*                                                                         *)
(* Representation.                                                         *)
(*   - a byte is a number in 0..255;                                       *)
(*   - the input buffer is the sequence `input`; a slice &[u8] of it is a  *)
(*     record [lo, hi], the bytes input[lo..hi) counted from 0, so that    *)
(*     "the remaining slice" keeps its position inside the buffer;         *)
(*   - a u64 (and a u32, i32, i64 bit pattern) is the set of the positions *)
(*     of its 1 bits, bit 0 the least significant: 64-bit values do not    *)
(*     fit the model checker's integers, and |, &, <<, >> and `as` are     *)
(*     operations on bits anyway.                                          *)
(***************************************************************************)
EXTENDS Integers, Sequences, FiniteSets, TLC

VARIABLES
    input,      \* the byte buffer every slice borrows from
    parts,      \* ghost: how the buffer was put together (never read by the code)
    vres,       \* the result of the last read_varint(input) call
    fbuf,       \* Fields.buf, the remaining view of the field cursor
    last,       \* what the last Fields::next returned, and from where
    yielded,    \* the fields Fields::next has yielded so far, in order
    pkind,      \* which packed iterator (its $get_fn)
    pbuf,       \* the packed iterator's buf, its remaining view
    plast,      \* what the last packed next returned, and from where
    pyielded,   \* the Ok values the packed iterator has yielded so far
    acc,        \* the last accessor or zigzag call: what was called, its result
    reps,       \* the Repeated adapters made so far, with what each returned
    cursors     \* further Fields values over the buffer, with what each returned

vars == <<input, parts, vres, fbuf, last, yielded, pkind, pbuf, plast, pyielded,
          acc, reps, cursors>>

(***************************************************************************)
(* Bits and bytes                                                          *)
(***************************************************************************)
Pow2(n) == 2 ^ n

\* The 1 bits of the byte b.
ByteBits(b) == {j \in 0..7 : (b \div Pow2(j)) % 2 = 1}

\* (x as u64) << n on a 64-bit value; n < 64 at every call site.
Shl(bits, n) == {i + n : i \in bits} \cap (0..63)

\* x >> n.
Shr(bits, n) == {i - n : i \in {k \in bits : k >= n}}

\* A small number as a 64-bit value.
U64(n) == {j \in 0..30 : (n \div Pow2(j)) % 2 = 1}

\* A value below 2^30 as a number.
RECURSIVE ToNat(_)
ToNat(bits) ==
    IF bits = {} THEN 0
    ELSE LET j == CHOOSE k \in bits : TRUE IN Pow2(j) + ToNat(bits \ {j})

\* n < v, for a length n (a usize that is the length of a modelled buffer)
\* and a 64-bit value v.
LtU64(n, v) == (\E k \in v : k >= 30) \/ n < ToNat(v)

\* n copies of the byte b.
Rep(b, n) == [i \in 1..n |-> b]

(***************************************************************************)
(* Slices                                                                  *)
(***************************************************************************)
Slice(lo, hi) == [lo |-> lo, hi |-> hi]

\* buf.len()
SLen(s) == s.hi - s.lo

\* buf[i], for an index the caller has checked
At(data, s, i) == data[s.lo + i + 1]

\* &buf[n..] and &buf[..n], for an n the caller has checked
SliceFrom(s, n) == Slice(s.lo + n, s.hi)
SliceTo(s, n) == Slice(s.lo, s.lo + n)

\* The bytes of a slice.
Bytes(data, s) == [i \in 1..SLen(s) |-> data[s.lo + i]]

Whole(data) == Slice(0, Len(data))

(***************************************************************************)
(* encoding.rs: read_varint                                                *)
(***************************************************************************)
VARINT_MAX_LEN == 10

\* Results: Ok((rest, value)) and Err(Error). `reads` is not part of the
\* Rust value: it records which positions of the buffer the call inspected.
Ok(rest, value, reads) ==
    [kind |-> "Ok", rest |-> rest, value |-> value, reads |-> reads]
Err(reads) == [kind |-> "Err", reads |-> reads]
Panic(reads) == [kind |-> "Panic", reads |-> reads]

\* A loop that shifts by whole bytes: << (index * 8).
RECURSIVE read_varint_loop_shift8(_, _, _, _, _)
read_varint_loop_shift8(data, buf, index, value, reads) ==
    IF index < SLen(buf)
    THEN LET byte == At(data, buf, index)
             rd == reads \cup {buf.lo + index}
         IN  IF index * 8 >= 64
             THEN Panic(rd)
             ELSE LET v == value \cup Shl(ByteBits(byte) \cap (0..6), index * 8)
                  IN  IF byte <= 127
                      THEN Ok(SliceFrom(buf, index + 1), v, rd)
                      ELSE read_varint_loop_shift8(data, buf, index + 1, v, rd)
    ELSE Err(reads)

\* read_varint_loop: the `while let Some(&byte) = buf.get(index)` loop, entered
\* at `index` with `value` accumulated. The shift index * 7 stays below 64
\* because read_varint_1 calls the loop only for fewer than 10 bytes; a shift
\* of 64 or more overflows (a panic with overflow checks on).
RECURSIVE read_varint_loop_from(_, _, _, _, _)
read_varint_loop_from(data, buf, index, value, reads) ==
    IF index < SLen(buf)
    THEN LET byte == At(data, buf, index)
             rd == reads \cup {buf.lo + index}
         IN  IF index * 7 >= 64
             THEN Panic(rd)
             ELSE LET v == value \cup Shl(ByteBits(byte) \cap (0..6), index * 7)
                  IN  IF byte <= 127
                      THEN Ok(SliceFrom(buf, index + 1), v, rd)
                      ELSE read_varint_loop_from(data, buf, index + 1, v, rd)
    ELSE Err(reads)

\* read_varint_loop, from `let mut value = 0; let mut index = 0;`.
read_varint_loop(data, buf, reads) ==
    read_varint_loop_from(data, buf, 0, {}, reads)

\* Unrolled steps that end the 10th byte like the other nine: <= 0x7f.
RECURSIVE read_varint_unrolled_weak10(_, _, _, _, _)
read_varint_unrolled_weak10(data, buf, i, value, reads) ==
    LET byte == At(data, buf, i)
        rd == reads \cup {buf.lo + i}
        v == value \cup Shl(ByteBits(byte) \cap (0..6), i * 7)
    IN  IF byte <= 127
        THEN Ok(SliceFrom(buf, i + 1), v, rd)
        ELSE IF i < 9
             THEN read_varint_unrolled_weak10(data, buf, i + 1, v, rd)
             ELSE Err(rd)

\* The unrolled steps of read_varint_1 for buf[i], i = 1..9: bytes 1..8 give
\* their low 7 bits and end the varint when <= 0x7f; byte 9 gives its low bit
\* only and must be <= 0x01.
RECURSIVE read_varint_unrolled(_, _, _, _, _)
read_varint_unrolled(data, buf, i, value, reads) ==
    LET byte == At(data, buf, i)
        rd == reads \cup {buf.lo + i}
    IN  IF i < 9
        THEN LET v == value \cup Shl(ByteBits(byte) \cap (0..6), i * 7)
             IN  IF byte <= 127
                 THEN Ok(SliceFrom(buf, i + 1), v, rd)
                 ELSE read_varint_unrolled(data, buf, i + 1, v, rd)
        ELSE LET v == value \cup Shl(ByteBits(byte) \cap {0}, 9 * 7)
             IN  IF byte <= 1
                 THEN Ok(SliceFrom(buf, 10), v, rd)
                 ELSE Err(rd)

\* A read_varint_1 that unrolls only for more than VARINT_MAX_LEN bytes.
read_varint_1_gt(data, buf, reads) ==
    IF SLen(buf) > VARINT_MAX_LEN
    THEN IF At(data, buf, 0) <= 127
         THEN Panic(reads \cup {buf.lo})
         ELSE read_varint_unrolled(data, buf, 1,
                  ByteBits(At(data, buf, 0)) \cap (0..6), reads \cup {buf.lo})
    ELSE read_varint_loop(data, buf, reads)

\* read_varint_1: unrolled when at least VARINT_MAX_LEN bytes remain, the
\* loop otherwise. debug_assert!(buf[0] > 0x7f) holds at its only call site.
read_varint_1(data, buf, reads) ==
    IF SLen(buf) >= VARINT_MAX_LEN
    THEN IF At(data, buf, 0) <= 127
         THEN Panic(reads \cup {buf.lo})
         ELSE read_varint_unrolled(data, buf, 1,
                  ByteBits(At(data, buf, 0)) \cap (0..6), reads \cup {buf.lo})
    ELSE read_varint_loop(data, buf, reads)

\* read_varint: the single-byte fast path, else read_varint_1.
read_varint(data, buf) ==
    IF SLen(buf) > 0
    THEN IF At(data, buf, 0) <= 127
         THEN Ok(SliceFrom(buf, 1), ByteBits(At(data, buf, 0)), {buf.lo})
         ELSE read_varint_1(data, buf, {buf.lo})
    ELSE read_varint_1(data, buf, {})

(***************************************************************************)
(* field.rs: Field and FieldValue                                          *)
(***************************************************************************)
\* FieldValue, one constructor per variant.
FvVarint(value) == [variant |-> "Varint", value |-> value]
FvFixed64(bytes) == [variant |-> "Fixed64", bytes |-> bytes]
FvLengthDelimited(buf) == [variant |-> "LengthDelimited", buf |-> buf]
FvStartGroup == [variant |-> "StartGroup"]
FvEndGroup == [variant |-> "EndGroup"]
FvFixed32(bytes) == [variant |-> "Fixed32", bytes |-> bytes]

Field(number, value) == [number |-> number, value |-> value]

(***************************************************************************)
(* message.rs: Message, Fields                                             *)
(***************************************************************************)
\* The width of usize, for len.try_into() in try_next (a 64-bit target).
USIZE_BITS == 64

\* Message::new(buf).fields(): Fields { buf }
MessageFields(data) == Whole(data)

\* Message::fields on a Message { buf }: Fields { buf: self.buf }.
Message_fields(buf) == buf

\* #[derive(Clone)] on Fields: the clone holds the same view.
Fields_clone(buf) == buf

\* What try_next returns, with `buf` the value of self.buf after the call:
\* Ok(None), Ok(Some(field)), Err(Error), or a panic of an index or unwrap.
TryNone(buf) == [kind |-> "None", buf |-> buf]
TrySome(buf, field) == [kind |-> "Field", buf |-> buf, field |-> field]
TryErr(buf) == [kind |-> "Err", buf |-> buf]
TryPanic(buf) == [kind |-> "Panic", buf |-> buf]

\* An arm `2 =>` that keeps the low 32 bits of the length (len as u32).
try_next_length_delimited_u32(data, self_buf, buf, number) ==
    LET r == read_varint(data, buf)
    IN  IF r.kind = "Ok"
        THEN LET len32 == r.value \cap (0..31)
             IN  IF LtU64(SLen(r.rest), len32)
                 THEN TryErr(self_buf)
                 ELSE LET len == ToNat(len32)
                      IN  TrySome(SliceFrom(r.rest, len),
                              Field(number, FvLengthDelimited(SliceTo(r.rest, len))))
        ELSE IF r.kind = "Err" THEN TryErr(self_buf) ELSE TryPanic(self_buf)

\* The arm `2 =>` of try_next: the length, its conversion to usize, the
\* bounds check, and the two slices.
\* An arm `2 =>` without the check `len > buf.len()`: &buf[..len] with len
\* beyond the view panics.
try_next_length_delimited_unchecked(data, self_buf, buf, number) ==
    LET r == read_varint(data, buf)
    IN  IF r.kind = "Ok"
        THEN IF \E k \in r.value : k >= USIZE_BITS
             THEN TryErr(self_buf)
             ELSE IF LtU64(SLen(r.rest), r.value)
                  THEN TryPanic(self_buf)
                  ELSE LET len == ToNat(r.value)
                       IN  TrySome(SliceFrom(r.rest, len),
                               Field(number, FvLengthDelimited(SliceTo(r.rest, len))))
        ELSE IF r.kind = "Err" THEN TryErr(self_buf) ELSE TryPanic(self_buf)

\* The arm `2 =>` of `match wire_type`: the length, then that many bytes.
try_next_length_delimited(data, self_buf, buf, number) ==
    LET r == read_varint(data, buf)
    IN  IF r.kind = "Ok"
        THEN IF \E k \in r.value : k >= USIZE_BITS
             THEN TryErr(self_buf)
             ELSE IF LtU64(SLen(r.rest), r.value)
                  THEN TryErr(self_buf)
                  ELSE LET len == ToNat(r.value)
                       IN  TrySome(SliceFrom(r.rest, len),
                               Field(number, FvLengthDelimited(SliceTo(r.rest, len))))
        ELSE IF r.kind = "Err" THEN TryErr(self_buf) ELSE TryPanic(self_buf)

\* A `match wire_type` whose arm `0 =>` returns the view after the tag, not
\* the view after the payload.
try_next_dispatch_stale(data, self_buf, buf, number, wire_type) ==
    CASE wire_type = 0 ->
            LET r == read_varint(data, buf)
            IN  IF r.kind = "Ok"
                THEN TrySome(buf, Field(number, FvVarint(r.value)))
                ELSE IF r.kind = "Err" THEN TryErr(self_buf) ELSE TryPanic(self_buf)
      [] wire_type = 1 ->
            IF SLen(buf) < 8
            THEN TryErr(self_buf)
            ELSE TrySome(SliceFrom(buf, 8),
                     Field(number, FvFixed64(Bytes(data, SliceTo(buf, 8)))))
      [] wire_type = 2 -> try_next_length_delimited(data, self_buf, buf, number)
      [] wire_type = 3 -> TrySome(buf, Field(number, FvStartGroup))
      [] wire_type = 4 -> TrySome(buf, Field(number, FvEndGroup))
      [] wire_type = 5 ->
            IF SLen(buf) < 4
            THEN TryErr(self_buf)
            ELSE TrySome(SliceFrom(buf, 4),
                     Field(number, FvFixed32(Bytes(data, SliceTo(buf, 4)))))
      [] OTHER -> TryErr(self_buf)

\* A `match wire_type` whose arms `3 =>` and `4 =>` leave the cursor on the
\* tag of the group marker.
try_next_dispatch_group_stays(data, self_buf, buf, number, wire_type) ==
    CASE wire_type = 0 ->
            LET r == read_varint(data, buf)
            IN  IF r.kind = "Ok"
                THEN TrySome(r.rest, Field(number, FvVarint(r.value)))
                ELSE IF r.kind = "Err" THEN TryErr(self_buf) ELSE TryPanic(self_buf)
      [] wire_type = 1 ->
            IF SLen(buf) < 8
            THEN TryErr(self_buf)
            ELSE IF 8 > SLen(buf)
                 THEN TryPanic(self_buf)
                 ELSE TrySome(SliceFrom(buf, 8),
                          Field(number, FvFixed64(Bytes(data, SliceTo(buf, 8)))))
      [] wire_type = 2 -> try_next_length_delimited(data, self_buf, buf, number)
      [] wire_type = 3 -> TrySome(self_buf, Field(number, FvStartGroup))
      [] wire_type = 4 -> TrySome(self_buf, Field(number, FvEndGroup))
      [] wire_type = 5 ->
            IF SLen(buf) < 4
            THEN TryErr(self_buf)
            ELSE IF 4 > SLen(buf)
                 THEN TryPanic(self_buf)
                 ELSE TrySome(SliceFrom(buf, 4),
                          Field(number, FvFixed32(Bytes(data, SliceTo(buf, 4)))))
      [] OTHER -> TryErr(self_buf)

\* The `match wire_type` of try_next, after the tag was read: `self_buf` is
\* self.buf, `buf` the view after the tag.
try_next_dispatch(data, self_buf, buf, number, wire_type) ==
    CASE wire_type = 0 ->
            LET r == read_varint(data, buf)
            IN  IF r.kind = "Ok"
                THEN TrySome(r.rest, Field(number, FvVarint(r.value)))
                ELSE IF r.kind = "Err" THEN TryErr(self_buf) ELSE TryPanic(self_buf)
      [] wire_type = 1 ->
            IF SLen(buf) < 8
            THEN TryErr(self_buf)
            ELSE IF 8 > SLen(buf)
                 THEN TryPanic(self_buf)
                 ELSE TrySome(SliceFrom(buf, 8),
                          Field(number, FvFixed64(Bytes(data, SliceTo(buf, 8)))))
      [] wire_type = 2 -> try_next_length_delimited(data, self_buf, buf, number)
      [] wire_type = 3 -> TrySome(buf, Field(number, FvStartGroup))
      [] wire_type = 4 -> TrySome(buf, Field(number, FvEndGroup))
      [] wire_type = 5 ->
            IF SLen(buf) < 4
            THEN TryErr(self_buf)
            ELSE IF 4 > SLen(buf)
                 THEN TryPanic(self_buf)
                 ELSE TrySome(SliceFrom(buf, 4),
                          Field(number, FvFixed32(Bytes(data, SliceTo(buf, 4)))))
      [] OTHER -> TryErr(self_buf)

\* A try_next that masks the wire type with 0x3.
try_next_mask3(data, self_buf) ==
    IF SLen(self_buf) = 0
    THEN TryNone(self_buf)
    ELSE LET r == read_varint(data, self_buf)
         IN  IF r.kind = "Ok"
             THEN LET tag == r.value
                      number == Shr(tag, 3)
                  IN  IF number = {}
                      THEN TryErr(self_buf)
                      ELSE try_next_dispatch(data, self_buf, r.rest, number,
                               ToNat(tag \cap (0..1)))
             ELSE IF r.kind = "Err" THEN TryErr(self_buf) ELSE TryPanic(self_buf)

\* A try_next that rejects tag 0 instead of field number 0.
try_next_tag0(data, self_buf) ==
    IF SLen(self_buf) = 0
    THEN TryNone(self_buf)
    ELSE LET r == read_varint(data, self_buf)
         IN  IF r.kind = "Ok"
             THEN LET tag == r.value
                      number == Shr(tag, 3)
                  IN  IF tag = {}
                      THEN TryErr(self_buf)
                      ELSE try_next_dispatch(data, self_buf, r.rest, number,
                               ToNat(tag \cap (0..2)))
             ELSE IF r.kind = "Err" THEN TryErr(self_buf) ELSE TryPanic(self_buf)

\* A try_next that stores the view after the tag in self.buf before it
\* decodes the payload.
try_next_early_store(data, self_buf) ==
    IF SLen(self_buf) = 0
    THEN TryNone(self_buf)
    ELSE LET r == read_varint(data, self_buf)
         IN  IF r.kind = "Ok"
             THEN LET tag == r.value
                      number == Shr(tag, 3)
                  IN  IF number = {}
                      THEN TryErr(self_buf)
                      ELSE try_next_dispatch(data, r.rest, r.rest, number,
                               ToNat(tag \cap (0..2)))
             ELSE IF r.kind = "Err" THEN TryErr(self_buf) ELSE TryPanic(self_buf)

\* A try_next without the is_empty check.
try_next_no_empty_check(data, self_buf) ==
    LET r == read_varint(data, self_buf)
    IN  IF r.kind = "Ok"
        THEN LET tag == r.value
                 number == Shr(tag, 3)
             IN  IF number = {}
                 THEN TryErr(self_buf)
                 ELSE try_next_dispatch(data, self_buf, r.rest, number,
                          ToNat(tag \cap (0..2)))
        ELSE IF r.kind = "Err" THEN TryErr(self_buf) ELSE TryPanic(self_buf)

\* Fields::try_next: self.buf is assigned only on the way to Ok(Some(..)).
try_next(data, self_buf) ==
    IF SLen(self_buf) = 0
    THEN TryNone(self_buf)
    ELSE LET r == read_varint(data, self_buf)
         IN  IF r.kind = "Ok"
             THEN LET tag == r.value
                      number == Shr(tag, 3)
                  IN  IF number = {}
                      THEN TryErr(self_buf)
                      ELSE try_next_dispatch(data, self_buf, r.rest, number,
                               ToNat(tag \cap (0..2)))
             ELSE IF r.kind = "Err" THEN TryErr(self_buf) ELSE TryPanic(self_buf)

(***************************************************************************)
(* encoding.rs: zigzag; field.rs: Varint accessors, varint-packed iterators*)
(***************************************************************************)
Xor(a, b) == (a \ b) \cup (b \ a)

\* zigzag::decode_32: (n >> 1) as i32 ^ -((n & 1) as i32), on 32 bits.
zigzag_decode_32(n) == Xor(Shr(n, 1), IF 0 \in n THEN 0..31 ELSE {})

\* A decode_64 whose sign mask is the 32-bit one.
zigzag_decode_64_narrow(n) == Xor(Shr(n, 1), IF 0 \in n THEN 0..31 ELSE {})

\* zigzag::decode_64, on 64 bits.
zigzag_decode_64(n) == Xor(Shr(n, 1), IF 0 \in n THEN 0..63 ELSE {})

\* Accessors with a get_sint32 that decodes all 64 bits and then truncates.
VarintGet_wide(get_fn, value) ==
    CASE get_fn = "get_bool" -> value # {}
      [] get_fn = "get_enum" -> value \cap (0..31)
      [] get_fn = "get_int32" -> value \cap (0..31)
      [] get_fn = "get_int64" -> value
      [] get_fn = "get_sint32" -> zigzag_decode_64(value) \cap (0..31)
      [] get_fn = "get_sint64" -> zigzag_decode_64(value)
      [] get_fn = "get_uint32" -> value \cap (0..31)
      [] get_fn = "get_uint64" -> value

\* impl Varint: the accessor named get_fn on Varint { value }. A bool is a
\* BOOLEAN; an i32, u32, i64 or u64 is its bit pattern.
VarintGet(get_fn, value) ==
    CASE get_fn = "get_bool" -> value # {}
      [] get_fn = "get_enum" -> value \cap (0..31)
      [] get_fn = "get_int32" -> value \cap (0..31)
      [] get_fn = "get_int64" -> value
      [] get_fn = "get_sint32" -> zigzag_decode_32(value \cap (0..31))
      [] get_fn = "get_sint64" -> zigzag_decode_64(value)
      [] get_fn = "get_uint32" -> value \cap (0..31)
      [] get_fn = "get_uint64" -> value

\* The $get_fn of PackedBool, PackedEnum, PackedInt32, PackedInt64,
\* PackedSint32, PackedSint64, PackedUint32, PackedUint64.
VarintGetFns ==
    {"get_bool", "get_enum", "get_int32", "get_int64",
     "get_sint32", "get_sint64", "get_uint32", "get_uint64"}

\* impl_packed!, Varint arm: next() of the iterator with accessor get_fn;
\* `buf` in the result is self.buf after the call.
PackedNone(buf) == [kind |-> "None", buf |-> buf]
PackedOk(buf, item) == [kind |-> "Ok", buf |-> buf, item |-> item]
PackedErr(buf) == [kind |-> "Err", buf |-> buf]
PackedPanic(buf) == [kind |-> "Panic", buf |-> buf]

\* A next() that does not store the view after the item in self.buf.
packed_varint_next_stale(data, self_buf, get_fn) ==
    IF SLen(self_buf) = 0
    THEN PackedNone(self_buf)
    ELSE LET r == read_varint(data, self_buf)
         IN  IF r.kind = "Ok"
             THEN PackedOk(self_buf, VarintGet(get_fn, r.value))
             ELSE IF r.kind = "Err" THEN PackedErr(self_buf)
                  ELSE PackedPanic(self_buf)

packed_varint_next(data, self_buf, get_fn) ==
    IF SLen(self_buf) = 0
    THEN PackedNone(self_buf)
    ELSE LET r == read_varint(data, self_buf)
         IN  IF r.kind = "Ok"
             THEN PackedOk(r.rest, VarintGet(get_fn, r.value))
             ELSE IF r.kind = "Err" THEN PackedErr(self_buf)
                  ELSE PackedPanic(self_buf)

(***************************************************************************)
(* field.rs: Fixed32, Fixed64, fixed-width packed iterators                *)
(***************************************************************************)
\* u32::from_le_bytes, u64::from_le_bytes (and the i32, i64, f32, f64 ones):
\* byte i holds the bits 8*i .. 8*i+7.
RECURSIVE from_le_bytes(_)
from_le_bytes(bytes) ==
    IF bytes = <<>> THEN {}
    ELSE ByteBits(Head(bytes)) \cup {j + 8 : j \in from_le_bytes(Tail(bytes))}

\* impl Fixed32 and impl Fixed64: the accessor named get_fn on the carrier
\* { bytes }. Each is from_le_bytes at its own type; an f32 or f64 is its bit
\* pattern here, as an i32 or i64 is.
Fixed32Get(get_fn, bytes) ==
    CASE get_fn = "get_fixed32" -> from_le_bytes(bytes)
      [] get_fn = "get_sfixed32" -> from_le_bytes(bytes)
      [] get_fn = "get_float" -> from_le_bytes(bytes)

Fixed64Get(get_fn, bytes) ==
    CASE get_fn = "get_fixed64" -> from_le_bytes(bytes)
      [] get_fn = "get_sfixed64" -> from_le_bytes(bytes)
      [] get_fn = "get_double" -> from_le_bytes(bytes)

\* The $get_fn of PackedFixed64, PackedSfixed64, PackedDouble and of
\* PackedFixed32, PackedSfixed32, PackedFloat.
Fixed64GetFns == {"get_fixed64", "get_sfixed64", "get_double"}
Fixed32GetFns == {"get_fixed32", "get_sfixed32", "get_float"}

\* impl_packed!, Fixed64 arm: next().
packed_fixed64_next(data, self_buf, get_fn) ==
    IF SLen(self_buf) = 0
    THEN PackedNone(self_buf)
    ELSE IF SLen(self_buf) < 8
         THEN PackedErr(self_buf)
         ELSE IF 8 > SLen(self_buf)
              THEN PackedPanic(self_buf)
              ELSE PackedOk(SliceFrom(self_buf, 8),
                       Fixed64Get(get_fn, Bytes(data, SliceTo(self_buf, 8))))

\* A Fixed32 arm that stops without an error on a short tail.
packed_fixed32_next_silent(data, self_buf, get_fn) ==
    IF SLen(self_buf) < 4
    THEN PackedNone(self_buf)
    ELSE PackedOk(SliceFrom(self_buf, 4),
             Fixed32Get(get_fn, Bytes(data, SliceTo(self_buf, 4))))

\* impl_packed!, Fixed32 arm: next().
packed_fixed32_next(data, self_buf, get_fn) ==
    IF SLen(self_buf) = 0
    THEN PackedNone(self_buf)
    ELSE IF SLen(self_buf) < 4
         THEN PackedErr(self_buf)
         ELSE IF 4 > SLen(self_buf)
              THEN PackedPanic(self_buf)
              ELSE PackedOk(SliceFrom(self_buf, 4),
                       Fixed32Get(get_fn, Bytes(data, SliceTo(self_buf, 4))))

(***************************************************************************)
(* field.rs: LengthDelimited, the FieldValue accessors, Repeated           *)
(***************************************************************************)
\* core::str::from_utf8(bytes).is_ok(), from position i (counted from 1):
\* the well-formed byte sequences of UTF-8. The first byte gives the length
\* and the range of the second byte; the other bytes are 80..BF.
Utf8SecondRange(b) ==
    CASE b = 224 -> 160..191
      [] b = 237 -> 128..159
      [] b = 240 -> 144..191
      [] b = 244 -> 128..143
      [] OTHER -> 128..191

Utf8Width(b) ==
    CASE b <= 127 -> 1
      [] b \in 194..223 -> 2
      [] b \in 224..239 -> 3
      [] b \in 240..244 -> 4
      [] OTHER -> 0

RECURSIVE utf8_valid_from(_, _)
utf8_valid_from(bytes, i) ==
    IF i > Len(bytes) THEN TRUE
    ELSE LET w == Utf8Width(bytes[i])
         IN  /\ w > 0
             /\ i + w - 1 <= Len(bytes)
             /\ w >= 2 => bytes[i + 1] \in Utf8SecondRange(bytes[i])
             /\ \A k \in 2..(w - 1) : bytes[i + k] \in 128..191
             /\ utf8_valid_from(bytes, i + w)

\* Results of the accessors: Ok(val) and Err(Error).
GetOk(val) == [kind |-> "Ok", val |-> val]
GetErr == [kind |-> "Err"]

\* impl LengthDelimited. A &[u8], a &str and a Message { buf } are the view
\* they borrow.
LengthDelimited_get_bytes(data, buf) == buf
\* A get_message over everything from the payload's first byte on.
LengthDelimited_get_message_open(data, buf) == Slice(buf.lo, Len(data))
LengthDelimited_get_message(data, buf) == buf
\* A get_string that does not validate (from_utf8_unchecked).
LengthDelimited_get_string_unchecked(data, buf) == GetOk(buf)
LengthDelimited_get_string(data, buf) ==
    IF utf8_valid_from(Bytes(data, buf), 1) THEN GetOk(buf) ELSE GetErr

\* LengthDelimited::get_packed_X: the packed iterator X { buf: self.buf }.
PackedIter(get_fn, buf) == [get_fn |-> get_fn, buf |-> buf]

\* The accessors of FieldValue, by name.
Fixed64Fns == Fixed64GetFns
Fixed32Fns == Fixed32GetFns
BytesFns == {"get_bytes", "get_message", "get_string"}
ScalarFns == VarintGetFns \cup Fixed64Fns \cup Fixed32Fns
GetFns == ScalarFns \cup BytesFns

\* Accessors of the 32-bit fixed types that also take the low half of a
\* Fixed64.
FieldValueGet_lenient(data, get_fn, fv) ==
    CASE get_fn \in VarintGetFns ->
            IF fv.variant = "Varint" THEN GetOk(VarintGet(get_fn, fv.value)) ELSE GetErr
      [] get_fn \in Fixed64Fns ->
            IF fv.variant = "Fixed64" THEN GetOk(Fixed64Get(get_fn, fv.bytes)) ELSE GetErr
      [] get_fn \in Fixed32Fns ->
            IF fv.variant = "Fixed32" THEN GetOk(Fixed32Get(get_fn, fv.bytes))
            ELSE IF fv.variant = "Fixed64"
                 THEN GetOk(Fixed32Get(get_fn, SubSeq(fv.bytes, 1, 4)))
                 ELSE GetErr
      [] get_fn = "get_bytes" ->
            IF fv.variant = "LengthDelimited"
            THEN GetOk(LengthDelimited_get_bytes(data, fv.buf)) ELSE GetErr
      [] get_fn = "get_message" ->
            IF fv.variant = "LengthDelimited"
            THEN GetOk(LengthDelimited_get_message(data, fv.buf)) ELSE GetErr
      [] get_fn = "get_string" ->
            IF fv.variant = "LengthDelimited"
            THEN LengthDelimited_get_string(data, fv.buf) ELSE GetErr

\* FieldValue::get_X for each of the 17 accessors: one match arm for the
\* variant of X, Err(Error) for every other variant.
FieldValueGet(data, get_fn, fv) ==
    CASE get_fn \in VarintGetFns ->
            IF fv.variant = "Varint" THEN GetOk(VarintGet(get_fn, fv.value)) ELSE GetErr
      [] get_fn \in Fixed64Fns ->
            IF fv.variant = "Fixed64" THEN GetOk(Fixed64Get(get_fn, fv.bytes)) ELSE GetErr
      [] get_fn \in Fixed32Fns ->
            IF fv.variant = "Fixed32" THEN GetOk(Fixed32Get(get_fn, fv.bytes)) ELSE GetErr
      [] get_fn = "get_bytes" ->
            IF fv.variant = "LengthDelimited"
            THEN GetOk(LengthDelimited_get_bytes(data, fv.buf)) ELSE GetErr
      [] get_fn = "get_message" ->
            IF fv.variant = "LengthDelimited"
            THEN GetOk(LengthDelimited_get_message(data, fv.buf)) ELSE GetErr
      [] get_fn = "get_string" ->
            IF fv.variant = "LengthDelimited"
            THEN LengthDelimited_get_string(data, fv.buf) ELSE GetErr

\* Repeated<T, P>: Value(Option<T>) and Packed(P).
Some(val) == [some |-> TRUE, val |-> val]
None == [some |-> FALSE]
RepeatedValue(opt) == [tag |-> "Value", v |-> opt]
RepeatedPacked(p) == [tag |-> "Packed", p |-> p]

\* A get_repeated_X whose packed arm of the zigzag types uses the packed
\* iterator of the plain signed type.
FieldValueGetRepeated_plain(get_fn, fv) ==
    CASE fv.variant = "LengthDelimited" ->
            GetOk(RepeatedPacked(PackedIter(
                CASE get_fn = "get_sint32" -> "get_int32"
                  [] get_fn = "get_sint64" -> "get_int64"
                  [] OTHER -> get_fn, fv.buf)))
      [] fv.variant = "Varint" /\ get_fn \in VarintGetFns ->
            GetOk(RepeatedValue(Some(VarintGet(get_fn, fv.value))))
      [] fv.variant = "Fixed64" /\ get_fn \in Fixed64Fns ->
            GetOk(RepeatedValue(Some(Fixed64Get(get_fn, fv.bytes))))
      [] fv.variant = "Fixed32" /\ get_fn \in Fixed32Fns ->
            GetOk(RepeatedValue(Some(Fixed32Get(get_fn, fv.bytes))))
      [] OTHER -> GetErr

\* FieldValue::get_repeated_X, named by the get_fn of X: Value(Some(..)) of
\* the scalar for the variant of X, Packed(get_packed_X()) for
\* LengthDelimited, Err(Error) for every other variant.
FieldValueGetRepeated(get_fn, fv) ==
    CASE fv.variant = "LengthDelimited" ->
            GetOk(RepeatedPacked(PackedIter(get_fn, fv.buf)))
      [] fv.variant = "Varint" /\ get_fn \in VarintGetFns ->
            GetOk(RepeatedValue(Some(VarintGet(get_fn, fv.value))))
      [] fv.variant = "Fixed64" /\ get_fn \in Fixed64Fns ->
            GetOk(RepeatedValue(Some(Fixed64Get(get_fn, fv.bytes))))
      [] fv.variant = "Fixed32" /\ get_fn \in Fixed32Fns ->
            GetOk(RepeatedValue(Some(Fixed32Get(get_fn, fv.bytes))))
      [] OTHER -> GetErr

\* next() of the packed iterator p, whichever macro arm made it.
packed_next(data, p) ==
    CASE p.get_fn \in VarintGetFns -> packed_varint_next(data, p.buf, p.get_fn)
      [] p.get_fn \in Fixed64Fns -> packed_fixed64_next(data, p.buf, p.get_fn)
      [] p.get_fn \in Fixed32Fns -> packed_fixed32_next(data, p.buf, p.get_fn)

\* impl Iterator for Repeated: next(). `self` in the result is the adapter
\* after the call; `res` is what the call returned.
\* A next() whose Value arm copies the value out instead of taking it.
Repeated_next_copy(data, rep) ==
    IF rep.tag = "Value"
    THEN [self |-> rep,
          res |-> IF rep.v.some THEN [kind |-> "Ok", item |-> rep.v.val]
                  ELSE [kind |-> "None"]]
    ELSE LET r == packed_next(data, rep.p)
         IN  [self |-> RepeatedPacked(PackedIter(rep.p.get_fn, r.buf)),
              res |-> IF r.kind = "Ok" THEN [kind |-> "Ok", item |-> r.item]
                      ELSE [kind |-> r.kind]]

RepeatedStep(self, res) == [self |-> self, res |-> res]

Repeated_next(data, rep) ==
    IF rep.tag = "Value"
    THEN RepeatedStep(RepeatedValue(None),
             IF rep.v.some THEN [kind |-> "Ok", item |-> rep.v.val]
             ELSE [kind |-> "None"])
    ELSE LET r == packed_next(data, rep.p)
         IN  RepeatedStep(RepeatedPacked(PackedIter(rep.p.get_fn, r.buf)),
                 IF r.kind = "Ok" THEN [kind |-> "Ok", item |-> r.item]
                 ELSE [kind |-> r.kind])

(***************************************************************************)
(* Inputs                                                                  *)
(***************************************************************************)
\* The sequences over S of length at most n.
SeqsUpTo(S, n) == UNION {[1..k -> S] : k \in 0..n}

RECURSIVE Flatten(_)
Flatten(ss) == IF ss = <<>> THEN <<>> ELSE Head(ss) \o Flatten(Tail(ss))

MaxRun == 10    \* longest run of one continuation byte opening a varint input
MaxTail == 2    \* bytes of every kind after that run
MaxPad == 9     \* longest run of one byte closing a field input
MaxPre == 2     \* well-formed fields in front of the rest, in a field sequence
MaxItems == 2   \* well-formed items in front of the last one, in a packed view
MaxAgain == 2   \* calls made after an iterator has returned None or an error
MaxFixedLen == 17   \* longest view of a fixed-width packed iterator

\* The inputs of tests::read_varint_ok, read_varint_invalid,
\* read_varint_overflow and read_varint_too_many_bytes.
VarintTestInputs ==
    {<<0>>,
     <<1>>,
     <<127>>,
     <<162, 116>>,
     <<190, 247, 146, 132, 11>>,
     <<190, 247, 146, 132, 27>>,
     <<128, 230, 235, 156, 195, 201, 164, 73>>,
     <<155, 168, 249, 194, 187, 214, 128, 133, 166, 1>>,
     <<255, 255, 255, 255, 255, 255, 255, 255, 255, 1>>,
     <<>>,
     <<240, 171>>,
     <<240, 171, 201, 154, 248, 178>>,
     <<255, 255, 255, 255, 255, 255, 255, 255, 255, 2>>,
     <<255, 255, 255, 255, 255, 255, 255, 255, 255, 128, 0>>}

ContBytes == {128, 162, 255}
TailBytes == {0, 1, 2, 127, 128, 255}

\* A run of one continuation byte, then up to MaxTail bytes of every kind;
\* and the inputs of the tests.
VarintInputs ==
    {Rep(c, n) \o t : c \in ContBytes, n \in 0..MaxRun,
                      t \in SeqsUpTo(TailBytes, MaxTail)}
    \cup VarintTestInputs

\* Field inputs: a tag, the head of a payload, and a run of one byte.
\* Tags: every wire type of field 0 and of field 1, other field numbers,
\* non-minimal encodings of field 0 and of field 1, field numbers of 61 bits,
\* an overflowing tag, and a continuation byte that takes the tag's other
\* bytes from what follows.
TagBytes ==
    {<<b>> : b \in 0..15}
    \cup {<<>>, <<16>>, <<18>>, <<29>>, <<128>>,
          <<128, 0>>, <<135, 0>>, <<130, 1>>, <<136, 128, 0>>,
          <<248>> \o Rep(255, 8) \o <<1>>, <<250>> \o Rep(255, 8) \o <<1>>,
          Rep(255, 9) \o <<1>>, Rep(255, 9) \o <<2>>}

\* Payload heads: lengths 0, 2 and 5, a continuation byte, 2^32, 2^64 - 1, and
\* a length that overflows 64 bits.
HeadBytes ==
    {<<>>, <<0>>, <<2>>, <<5>>, <<128>>, <<128, 128, 128, 128, 16>>,
     Rep(255, 9) \o <<1>>, Rep(255, 9) \o <<2>>}

\* The byte of the closing run: a field-0 tag, a length of 1, a length of 3,
\* a start-group tag of field 1, a continuation byte.
PadBytes == {0, 1, 3, 11, 255}

FieldInputs ==
    {t \o h \o Rep(b, n) : t \in TagBytes, h \in HeadBytes,
                           b \in PadBytes, n \in 0..MaxPad}

\* Field sequences: the encodings of up to MaxPre fields, each written down
\* with the field it encodes (number, variant, and content: the value of a
\* Varint, the bytes of the others), and then a rest.
Expect(number, variant, content) ==
    [number |-> number, variant |-> variant, content |-> content]

GoodFields ==
    {[enc |-> <<8, 1>>, view |-> Expect({0}, "Varint", {0})],
     [enc |-> <<16, 2>>, view |-> Expect({1}, "Varint", {1})],
     [enc |-> <<8, 150, 1>>, view |-> Expect({0}, "Varint", {1, 2, 4, 7})],
     [enc |-> <<128, 1>> \o Rep(255, 9) \o <<1>>,
      view |-> Expect({4}, "Varint", 0..63)],
     [enc |-> <<18, 2, 104, 105>>,
      view |-> Expect({1}, "LengthDelimited", <<104, 105>>)],
     [enc |-> <<10, 0>>, view |-> Expect({0}, "LengthDelimited", <<>>)],
     [enc |-> <<29, 1, 2, 3, 4>>, view |-> Expect({0, 1}, "Fixed32", <<1, 2, 3, 4>>)],
     [enc |-> <<25, 1, 2, 3, 4, 5, 6, 7, 8>>,
      view |-> Expect({0, 1}, "Fixed64", <<1, 2, 3, 4, 5, 6, 7, 8>>)],
     [enc |-> <<11>>, view |-> Expect({0}, "StartGroup", <<>>)],
     [enc |-> <<12>>, view |-> Expect({0}, "EndGroup", <<>>)]}

\* The rest: empty; beginning with a malformed field (field number 0, a
\* truncated tag, wire type 6, a missing, truncated or overflowing payload);
\* or beginning with one more field.
FieldRests ==
    {[bytes |-> <<>>, kind |-> "empty"],
     [bytes |-> <<0>>, kind |-> "malformed"],
     [bytes |-> <<128>>, kind |-> "malformed"],
     [bytes |-> <<14, 1>>, kind |-> "malformed"],
     [bytes |-> <<8>>, kind |-> "malformed"],
     [bytes |-> <<8>> \o Rep(255, 9) \o <<2>>, kind |-> "malformed"],
     [bytes |-> <<18, 5, 97>>, kind |-> "malformed"],
     [bytes |-> <<29, 1, 2, 3>>, kind |-> "malformed"],
     [bytes |-> <<25, 1, 2, 3, 4, 5, 6, 7>>, kind |-> "malformed"],
     [bytes |-> <<24, 3>>, kind |-> "field"],
     [bytes |-> <<24, 3, 0>>, kind |-> "field"]}

\* Packed views: up to MaxItems well-formed varints (0, 1, 127, 14882,
\* 2^32 - 1, 2^32, 2^64 - 1, a non-minimal 0), and then nothing or a
\* malformed varint (truncated, overflowing, too long).
GoodItems ==
    {<<0>>, <<1>>, <<127>>, <<162, 116>>, <<255, 255, 255, 255, 15>>,
     <<128, 128, 128, 128, 16>>, Rep(255, 9) \o <<1>>, <<128, 0>>}

ItemRests ==
    {[bytes |-> <<>>, kind |-> "empty"],
     [bytes |-> <<128>>, kind |-> "malformed"],
     [bytes |-> <<255, 255>>, kind |-> "malformed"],
     [bytes |-> Rep(255, 9) \o <<2>>, kind |-> "malformed"],
     [bytes |-> Rep(255, 9) \o <<128, 0>>, kind |-> "malformed"]}

\* Fixed-width packed views: every length up to MaxFixedLen, the bytes
\* counting up from a start by a step, so that no two bytes of an element
\* are alike.
FixedViews ==
    {[i \in 1..n |-> (start + step * i) % 256] :
        n \in 0..MaxFixedLen, start \in {0, 127, 250}, step \in {1, 37}}

MaxRepCalls == 3    \* calls of next on one Repeated adapter

\* One element of a repeated scalar field: its wire-type family, the tag
\* byte of field 1 with that wire type, and its encoding.
Elem(family, tag, enc) == [family |-> family, tag |-> tag, enc |-> enc]

RepeatedElems ==
    {Elem("Varint", 8, item) : item \in GoodItems \cup {<<2>>, <<3>>}}
    \cup {Elem("Fixed32", 13, bytes) :
            bytes \in {<<0, 0, 0, 0>>, <<1, 2, 3, 4>>, <<255, 255, 255, 255>>,
                       <<0, 0, 128, 63>>}}
    \cup {Elem("Fixed64", 9, bytes) :
            bytes \in {<<0, 0, 0, 0, 0, 0, 0, 0>>, <<1, 2, 3, 4, 5, 6, 7, 8>>,
                       Rep(255, 8), <<0, 0, 0, 0, 0, 0, 240, 63>>}}

\* Field 1 with the element not packed, then field 1 with the packed
\* encoding of that one element (wire type 2, the length, the element).
RepeatedInput(el) == <<el.tag>> \o el.enc \o <<10, Len(el.enc)>> \o el.enc

MaxCursors == 2       \* Fields values made besides the first one
MaxCursorCalls == 3   \* calls of next on one of them

\* Messages with length-delimited fields whose payload is read as a message:
\* payloads that are well-formed, empty, cut inside a varint, inside a
\* fixed-width value or inside a payload of their own, while the outer
\* buffer goes on behind them.
NestedInputs ==
    {<<10, 4, 8, 1, 16, 2, 24, 3>>,
     <<10, 4, 8, 1, 8, 128, 16, 1>>,
     <<10, 3, 18, 2, 65, 66, 67>>,
     <<10, 0, 8, 1>>,
     <<10, 6, 18, 4, 8, 1, 16, 2, 8, 5>>,
     <<8, 1, 18, 2, 8, 7, 26, 1, 13>>,
     <<18, 2, 13, 1, 2, 3, 4>>,
     <<10, 1, 9, 1, 2, 3, 4, 5, 6, 7, 8>>}

\* Varint payloads for the accessors: the packed items, small values, the
\* values around 2^31, 2^32 and 2^63.
AccessItems ==
    GoodItems
    \cup {<<2>>, <<3>>, <<255, 255, 255, 255, 7>>, <<128, 128, 128, 128, 8>>,
          <<254, 255, 255, 255, 31>>, <<255, 255, 255, 255, 31>>,
          Rep(128, 9) \o <<1>>, Rep(255, 8) \o <<127>>}

\* Length-delimited payloads: text in one to four byte forms, "hello" with
\* one byte replaced by a continuation byte, and the ill-formed forms
\* (overlong, surrogate, cut short, above U+10FFFF, bad lead or continuation).
Hello == <<104, 101, 108, 108, 111>>

TextPayloads ==
    {<<>>, Hello, <<195, 169>>, <<226, 130, 172>>, <<240, 159, 152, 128>>,
     <<104, 195, 169, 108>>, <<237, 159, 191>>, <<244, 143, 191, 191>>,
     <<238, 128, 128>>, <<127>>, <<194, 128>>, <<224, 160, 128>>,
     <<240, 144, 128, 128>>}
    \cup {[Hello EXCEPT ![k] = 128] : k \in DOMAIN Hello}
    \cup {<<128>>, <<255>>, <<192, 128>>, <<193, 191>>, <<224, 128, 128>>,
          <<224, 159, 191>>, <<237, 160, 128>>, <<237, 191, 191>>, <<226, 130>>,
          <<195>>, <<195, 40>>, <<226, 40, 161>>, <<240, 128, 128, 128>>,
          <<240, 143, 191, 191>>, <<244, 144, 128, 128>>, <<245, 128, 128, 128>>,
          <<248, 136, 128, 128, 128>>, <<240, 159, 152>>, <<104, 105, 226, 130>>}

\* One field of number 1 of each variant.
AccessInputs ==
    {<<8>> \o item : item \in AccessItems}
    \cup {<<13>> \o el.enc : el \in {x \in RepeatedElems : x.family = "Fixed32"}}
    \cup {<<9>> \o el.enc : el \in {x \in RepeatedElems : x.family = "Fixed64"}}
    \cup {<<11>>, <<12>>}
    \cup {<<10, Len(text)>> \o text : text \in TextPayloads}

\* Arguments of the zigzag decoders: every choice of the three low bits and
\* of the bits around 2^31 and 2^63, with the bits between all clear or all
\* set.
ZigzagArgs32 ==
    {low \cup mid \cup high :
        low \in SUBSET {0, 1, 2}, mid \in {{}, 3..29}, high \in SUBSET {30, 31}}

ZigzagArgs64 ==
    {low \cup mid \cup around \cup upper \cup top :
        low \in SUBSET {0, 1, 2}, mid \in {{}, 3..30}, around \in SUBSET {31, 32},
        upper \in {{}, 33..62}, top \in SUBSET {63}}

\* Buffers for several cursors: fields of every variant, an error after a
\* field, an error at once, the empty buffer.
CursorInputs ==
    {<<8, 1, 16, 2>>,
     <<8, 1, 18, 2, 104, 105, 24, 3>>,
     <<13, 1, 2, 3, 4, 9, 1, 2, 3, 4, 5, 6, 7, 8, 11, 12>>,
     <<8, 1, 0>>,
     <<18, 5, 97>>,
     <<>>}

MaxBytes == 4        \* longest of the byte strings tried in full
MaxSafetyPad == 2    \* longest closing run of the other safety inputs

\* Every byte string up to MaxBytes over: 0 (field number 0, length 0), 2 (a
\* length), the tags 9, 10 and 13 of field 1 (also lengths beyond the
\* buffer), 255 (a continuation byte); and the field inputs with a short
\* closing run, for the ten-byte tags and lengths.
SafetyAlphabet == {0, 2, 9, 10, 13, 255}

SafetyInputs ==
    SeqsUpTo(SafetyAlphabet, MaxBytes)
    \cup {t \o h \o Rep(b, n) : t \in TagBytes, h \in HeadBytes,
                                 b \in PadBytes, n \in 0..MaxSafetyPad}

\* One packed iterator of each arm of impl_packed!.
SafetyKinds == {"get_uint64", "get_fixed64", "get_fixed32"}

(***************************************************************************)
(* State machine                                                           *)
(***************************************************************************)
NotCalled == [kind |-> "NotCalled"]
Start == [res |-> [kind |-> "Start"], again |-> 0]

\* The state after construction: Message::new(input).fields() and
\* LengthDelimited { buf: input }.$get_packed(), nothing called yet.
Fresh(data, get_fn, how) ==
    /\ input = data
    /\ parts = how
    /\ vres = NotCalled
    /\ fbuf = MessageFields(data)
    /\ last = Start
    /\ yielded = <<>>
    /\ pkind = get_fn
    /\ pbuf = Whole(data)
    /\ plast = Start
    /\ pyielded = <<>>
    /\ acc = NotCalled
    /\ reps = <<>>
    /\ cursors = <<>>

NoParts == [pre |-> <<>>, rest |-> [bytes |-> <<>>, kind |-> "unknown"]]

\* read_varint(&input[..hi])
ReadVarint ==
    /\ vres.kind = "NotCalled"
    /\ \E hi \in 0..Len(input) :
          vres' = [kind |-> "Called", buf |-> Slice(0, hi),
                   res |-> read_varint(input, Slice(0, hi))]
    /\ UNCHANGED <<input, parts, fbuf, last, yielded, pkind, pbuf, plast, pyielded>>
    /\ UNCHANGED <<acc, reps, cursors>>

\* Fields::next: try_next().transpose(), which maps Ok(None) to None,
\* Ok(Some(f)) to Some(Ok(f)) and Err(e) to Some(Err(e)).
FieldsNext ==
    /\ last.again < MaxAgain
    /\ last.res.kind # "Panic"
    /\ LET r == try_next(input, fbuf)
       IN  /\ fbuf' = r.buf
           /\ last' = [res |-> r, from |-> fbuf,
                       again |-> IF r.kind = "Field" THEN 0 ELSE last.again + 1]
           /\ yielded' = IF r.kind = "Field" THEN Append(yielded, r.field)
                         ELSE yielded
    /\ UNCHANGED <<input, parts, vres, pkind, pbuf, plast, pyielded>>
    /\ UNCHANGED <<acc, reps, cursors>>

\* next() of the varint-packed iterator pkind.
PackedNext ==
    /\ plast.again < MaxAgain
    /\ plast.res.kind # "Panic"
    /\ LET r == packed_varint_next(input, pbuf, pkind)
       IN  /\ pbuf' = r.buf
           /\ plast' = [res |-> r, from |-> pbuf,
                        again |-> IF r.kind = "Ok" THEN 0 ELSE plast.again + 1]
           /\ pyielded' = IF r.kind = "Ok" THEN Append(pyielded, r.item)
                          ELSE pyielded
    /\ UNCHANGED <<input, parts, vres, fbuf, last, yielded, pkind>>
    /\ UNCHANGED <<acc, reps, cursors>>

\* next() of the fixed-width packed iterator pkind.
PackedFixedNext ==
    /\ plast.again < MaxAgain
    /\ plast.res.kind # "Panic"
    /\ LET r == IF pkind \in Fixed64GetFns
                THEN packed_fixed64_next(input, pbuf, pkind)
                ELSE packed_fixed32_next(input, pbuf, pkind)
       IN  /\ pbuf' = r.buf
           /\ plast' = [res |-> r, from |-> pbuf,
                        again |-> IF r.kind = "Ok" THEN 0 ELSE plast.again + 1]
           /\ pyielded' = IF r.kind = "Ok" THEN Append(pyielded, r.item)
                          ELSE pyielded
    /\ UNCHANGED <<input, parts, vres, fbuf, last, yielded, pkind>>
    /\ UNCHANGED <<acc, reps, cursors>>

\* read_varint on the varint inputs.
InitVarint == \E data \in VarintInputs : Fresh(data, "get_uint64", NoParts)
NextVarint == ReadVarint
SpecVarint == InitVarint /\ [][NextVarint]_vars

\* The field cursor on the field sequences.
InitSeq ==
    \E pre \in SeqsUpTo(GoodFields, MaxPre), rest \in FieldRests :
        Fresh(Flatten([i \in 1..Len(pre) |-> pre[i].enc]) \o rest.bytes,
              "get_uint64", [pre |-> pre, rest |-> rest])
NextSeq == FieldsNext
SpecSeq == InitSeq /\ [][NextSeq]_vars

\* The eight varint-packed iterators on the packed views.
InitPacked ==
    \E pre \in SeqsUpTo(GoodItems, MaxItems), rest \in ItemRests,
       get_fn \in VarintGetFns :
        Fresh(Flatten(pre) \o rest.bytes, get_fn, [pre |-> pre, rest |-> rest])
NextPacked == PackedNext
SpecPacked == InitPacked /\ [][NextPacked]_vars

\* The six fixed-width packed iterators on the fixed-width views.
InitFixed ==
    \E data \in FixedViews, get_fn \in Fixed64GetFns \cup Fixed32GetFns :
        Fresh(data, get_fn, NoParts)
NextFixed == PackedFixedNext
SpecFixed == InitFixed /\ [][NextFixed]_vars

\* value.get_repeated_X() on the field yielded last, X named by get_fn; an
\* Ok result is kept as a new adapter, with the state it was made in.
GetRepeated(get_fn) ==
    /\ Len(yielded) >= 1
    /\ \A i \in DOMAIN reps : reps[i].on # Len(yielded)
    /\ LET r == FieldValueGetRepeated(get_fn, yielded[Len(yielded)].value)
       IN  /\ acc' = [call |-> "get_repeated", get_fn |-> get_fn,
                      on |-> Len(yielded), kind |-> r.kind]
           /\ reps' = IF r.kind = "Ok"
                      THEN Append(reps, [on |-> Len(yielded), made |-> r.val,
                                         self |-> r.val, hist |-> <<>>])
                      ELSE reps
    /\ UNCHANGED <<input, parts, vres, fbuf, last, yielded, pkind, pbuf, plast,
                   pyielded, cursors>>

\* Repeated::next on adapter i.
RepeatedNext(i) ==
    /\ Len(reps[i].hist) < MaxRepCalls
    /\ LET s == Repeated_next(input, reps[i].self)
       IN  reps' = [reps EXCEPT ![i].self = s.self,
                                ![i].hist = Append(@, s.res)]
    /\ UNCHANGED <<input, parts, vres, fbuf, last, yielded, pkind, pbuf, plast,
                   pyielded, acc, cursors>>

\* A repeated field of declared type pkind, its element once not packed and
\* once packed, read through the Repeated adapters.
InitRepeated ==
    \E el \in RepeatedElems, get_fn \in ScalarFns :
        Fresh(RepeatedInput(el), get_fn,
              [pre |-> <<el.enc>>, rest |-> [bytes |-> <<>>, kind |-> el.family]])
NextRepeated ==
    \/ FieldsNext
    \/ GetRepeated(pkind)
    \/ \E i \in DOMAIN reps : RepeatedNext(i)
SpecRepeated == InitRepeated /\ [][NextRepeated]_vars

\* A Fields value made with `how`, standing at buf, not stepped yet.
NewCursor(how, buf) == [how |-> how, start |-> buf, buf |-> buf, hist |-> <<>>]

\* The fields yielded so far, by the first cursor and by the others.
YieldedFields ==
    {yielded[k] : k \in DOMAIN yielded}
    \cup UNION {{cursors[i].hist[k].field :
                    k \in {n \in DOMAIN cursors[i].hist :
                             cursors[i].hist[n].kind = "Field"}} :
                 i \in DOMAIN cursors}

\* field.value.get_message().fields() on a yielded length-delimited field.
NestedFields ==
    /\ Len(cursors) < MaxCursors
    /\ \E f \in YieldedFields :
          /\ f.value.variant = "LengthDelimited"
          /\ \A i \in DOMAIN cursors : cursors[i].how # <<"nested", f>>
          /\ cursors' = Append(cursors,
                 NewCursor(<<"nested", f>>,
                     Message_fields(LengthDelimited_get_message(input, f.value.buf))))
    /\ UNCHANGED <<input, parts, vres, fbuf, last, yielded, pkind, pbuf, plast,
                   pyielded, acc, reps>>

\* message.fields() called again on the Message over the buffer.
NewFields ==
    /\ Len(cursors) < MaxCursors
    /\ cursors' = Append(cursors, NewCursor(<<"fields">>, Message_fields(Whole(input))))
    /\ UNCHANGED <<input, parts, vres, fbuf, last, yielded, pkind, pbuf, plast,
                   pyielded, acc, reps>>

\* fields.clone() on the first cursor (i = 0) or on cursor i.
CloneFields(i) ==
    /\ Len(cursors) < MaxCursors
    /\ cursors' = Append(cursors,
           NewCursor(<<"clone", i>>,
               Fields_clone(IF i = 0 THEN fbuf ELSE cursors[i].buf)))
    /\ UNCHANGED <<input, parts, vres, fbuf, last, yielded, pkind, pbuf, plast,
                   pyielded, acc, reps>>

\* A store of the position that every cursor of the buffer shares.
Fields_store_shared(cs, i, r) ==
    [j \in DOMAIN cs |->
        IF j = i THEN [cs[j] EXCEPT !.buf = r.buf, !.hist = Append(@, r)]
        ELSE [cs[j] EXCEPT !.buf = r.buf]]

\* `self.buf = buf` and the return of next, on cursor i of cs: the cursor
\* after the call, with what the call returned.
Fields_store(cs, i, r) ==
    [cs EXCEPT ![i].buf = r.buf, ![i].hist = Append(@, r)]

\* Fields::next on cursor i.
CursorNext(i) ==
    /\ Len(cursors[i].hist) < MaxCursorCalls
    /\ \A k \in DOMAIN cursors[i].hist : cursors[i].hist[k].kind # "Panic"
    /\ cursors' = Fields_store(cursors, i, try_next(input, cursors[i].buf))
    /\ UNCHANGED <<input, parts, vres, fbuf, last, yielded, pkind, pbuf, plast,
                   pyielded, acc, reps>>

\* A message whose length-delimited fields are read as messages in turn.
InitNested == \E data \in NestedInputs : Fresh(data, "get_uint64", NoParts)
NextNested ==
    \/ FieldsNext
    \/ NestedFields
    \/ \E i \in DOMAIN cursors : CursorNext(i)
SpecNested == InitNested /\ [][NextNested]_vars

\* value.get_X() on the field yielded last, X named by get_fn.
Access(get_fn) ==
    /\ Len(yielded) >= 1
    /\ LET r == FieldValueGet(input, get_fn, yielded[Len(yielded)].value)
       IN  acc' = [call |-> "get", get_fn |-> get_fn, on |-> Len(yielded),
                   kind |-> r.kind, res |-> r]
    /\ UNCHANGED <<input, parts, vres, fbuf, last, yielded, pkind, pbuf, plast,
                   pyielded, reps, cursors>>

\* Every accessor on one field of every variant.
InitAccess == \E data \in AccessInputs : Fresh(data, "get_uint64", NoParts)
NextAccess ==
    \/ FieldsNext
    \/ \E get_fn \in GetFns : Access(get_fn)
    \/ \E get_fn \in ScalarFns : GetRepeated(get_fn)
SpecAccess == InitAccess /\ [][NextAccess]_vars

\* zigzag::decode_32(n) and zigzag::decode_64(n).
ZigzagDecode32(n) ==
    /\ acc' = [call |-> "decode_32", arg |-> n, res |-> zigzag_decode_32(n)]
    /\ UNCHANGED <<input, parts, vres, fbuf, last, yielded, pkind, pbuf, plast,
                   pyielded, reps, cursors>>

ZigzagDecode64(n) ==
    /\ acc' = [call |-> "decode_64", arg |-> n, res |-> zigzag_decode_64(n)]
    /\ UNCHANGED <<input, parts, vres, fbuf, last, yielded, pkind, pbuf, plast,
                   pyielded, reps, cursors>>

\* The two zigzag decoders on their arguments.
InitZigzag == Fresh(<<>>, "get_sint64", NoParts)
NextZigzag ==
    \/ \E n \in ZigzagArgs32 : ZigzagDecode32(n)
    \/ \E n \in ZigzagArgs64 : ZigzagDecode64(n)
SpecZigzag == InitZigzag /\ [][NextZigzag]_vars

\* Several cursors over one buffer, stepped in any order.
InitCursors == \E data \in CursorInputs : Fresh(data, "get_uint64", NoParts)
NextCursors ==
    \/ FieldsNext
    \/ NewFields
    \/ \E i \in {0} \cup DOMAIN cursors : CloneFields(i)
    \/ \E i \in DOMAIN cursors : CursorNext(i)
SpecCursors == InitCursors /\ [][NextCursors]_vars

\* next() of the packed iterator pkind, of whichever arm.
PackedAnyNext ==
    /\ plast.again < MaxAgain
    /\ plast.res.kind # "Panic"
    /\ LET r == packed_next(input, PackedIter(pkind, pbuf))
       IN  /\ pbuf' = r.buf
           /\ plast' = [res |-> r, from |-> pbuf,
                        again |-> IF r.kind = "Ok" THEN 0 ELSE plast.again + 1]
           /\ pyielded' = IF r.kind = "Ok" THEN Append(pyielded, r.item)
                          ELSE pyielded
    /\ UNCHANGED <<input, parts, vres, fbuf, last, yielded, pkind>>
    /\ UNCHANGED <<acc, reps, cursors>>

\* The field cursor and a packed iterator on arbitrary bytes.
InitSafety ==
    \E data \in SafetyInputs, get_fn \in SafetyKinds : Fresh(data, get_fn, NoParts)
NextSafety ==
    \/ FieldsNext
    \/ PackedAnyNext
SpecSafety == InitSafety /\ [][NextSafety]_vars

\* The field cursor on the field inputs.
Init == \E data \in FieldInputs : Fresh(data, "get_uint64", NoParts)
Next == FieldsNext
Spec == Init /\ [][Next]_vars

(***************************************************************************)
(* What a varint is, stated on the bytes alone                             *)
(***************************************************************************)
\* k in 1..10 when the first k bytes of bs are a well-formed varint: bytes
\* 0..k-2 have bit 7 set, byte k-1 has it clear, and a 10th byte is 0 or 1.
\* 0 when bs does not start with a well-formed varint.
WfLen(bs) ==
    LET ks == {k \in 1..10 :
                 /\ k <= Len(bs)
                 /\ \A i \in 1..(k - 1) : bs[i] >= 128
                 /\ bs[k] < 128
                 /\ k = 10 => bs[k] <= 1}
    IN  IF ks = {} THEN 0 ELSE CHOOSE k \in ks : TRUE

\* sum over i < k of (byte_i AND 0x7f) * 2^(7*i), as a set of bits: bit n of
\* the sum is bit n mod 7 of byte n div 7.
WfValue(bs, k) ==
    {n \in 0..63 : n \div 7 < k /\ (n % 7) \in (ByteBits(bs[(n \div 7) + 1]) \ {7})}

\* The malformed buffers: empty; shorter than 10 bytes, every byte with the
\* continuation bit; nine continuation bytes and a 10th byte above 0x01.
Malformed(bs) ==
    \/ Len(bs) = 0
    \/ Len(bs) < 10 /\ \A i \in 1..Len(bs) : bs[i] >= 128
    \/ Len(bs) >= 10 /\ (\A i \in 1..9 : bs[i] >= 128) /\ bs[10] > 1

\* The general byte-by-byte LEB128 algorithm: every byte gives its low 7
\* bits, least significant group first; a byte without the continuation bit
\* ends the varint; the 10th byte may be 0 or 1 only; running out of bytes
\* is an error.
RECURSIVE GeneralVarintFrom(_, _, _)
GeneralVarintFrom(bs, i, value) ==
    IF i > Len(bs)
    THEN [kind |-> "Err"]
    ELSE IF i = 10
         THEN IF bs[i] > 1
              THEN [kind |-> "Err"]
              ELSE [kind |-> "Ok", used |-> 10,
                    value |-> value \cup (IF bs[i] = 1 THEN {63} ELSE {})]
         ELSE LET v == value \cup {7 * (i - 1) + j : j \in ByteBits(bs[i]) \ {7}}
              IN  IF bs[i] < 128
                  THEN [kind |-> "Ok", used |-> i, value |-> v]
                  ELSE GeneralVarintFrom(bs, i + 1, v)

GeneralVarint(bs) == GeneralVarintFrom(bs, 1, {})

\* A read_varint result on the view buf, in the shape of GeneralVarint's.
Outcome(buf, r) ==
    IF r.kind = "Ok"
    THEN [kind |-> "Ok", used |-> r.rest.lo - buf.lo, value |-> r.value]
    ELSE [kind |-> r.kind]

(***************************************************************************)
(* C1                                                                      *)
(***************************************************************************)
\* C1: when the first k bytes of the buffer (1 <= k <= 10) are a well-formed
\* varint, read_varint returns Ok with value = sum over i < k of
\* (byte_i AND 0x7f) * 2^(7*i) and with the rest being the buffer minus
\* exactly its first k bytes, whatever bytes follow.
C1_ReadVarintValue ==
    vres.kind = "Called" =>
        LET bs == Bytes(input, vres.buf)
            k == WfLen(bs)
        IN  k > 0 =>
               /\ vres.res.kind = "Ok"
               /\ vres.res.value = WfValue(bs, k)
               /\ vres.res.rest = Slice(vres.buf.lo + k, vres.buf.hi)

\* A 10-byte varint with the top bit of the value set, and bytes after it.
C1_Witness ==
    /\ vres.kind = "Called"
    /\ WfLen(Bytes(input, vres.buf)) = 10
    /\ SLen(vres.buf) > 10
    /\ vres.res.kind = "Ok"
    /\ 63 \in vres.res.value

(***************************************************************************)
(* C2                                                                      *)
(***************************************************************************)
\* C2: read_varint returns Err exactly on the malformed buffers and Ok on
\* every other buffer, and it inspects no byte beyond the 10th or beyond the
\* end of the buffer.
C2_ReadVarintErr ==
    vres.kind = "Called" =>
        LET bs == Bytes(input, vres.buf)
        IN  /\ vres.res.kind = (IF Malformed(bs) THEN "Err" ELSE "Ok")
            /\ \A p \in vres.res.reads :
                  /\ vres.buf.lo <= p
                  /\ p < vres.buf.hi
                  /\ p < vres.buf.lo + 10

\* An overflowing 10th byte, with an 11th byte in the buffer.
C2_Witness ==
    /\ vres.kind = "Called"
    /\ SLen(vres.buf) >= 11
    /\ \A i \in 1..9 : input[i] >= 128
    /\ input[10] > 1
    /\ vres.res.kind = "Err"

(***************************************************************************)
(* C3                                                                      *)
(***************************************************************************)
\* C3: whichever path read_varint takes (the single-byte fast path, the
\* unrolled path for at least 10 bytes, the loop for fewer), it gives the
\* value and the number of consumed bytes, or the error, of the general
\* byte-by-byte algorithm; and the result for a complete varint is the same
\* on every shorter or longer view that still holds the whole varint.
C3_PathsAgree ==
    vres.kind = "Called" =>
        LET bs == Bytes(input, vres.buf)
            out == Outcome(vres.buf, vres.res)
        IN  /\ out = GeneralVarint(bs)
            /\ out.kind = "Ok" =>
                  \A hi \in out.used..Len(input) :
                      Outcome(Slice(0, hi), read_varint(input, Slice(0, hi))) = out

\* The unrolled path ends a varint of fewer than 10 bytes that the loop
\* decodes on a shorter view.
C3_Witness ==
    /\ vres.kind = "Called"
    /\ SLen(vres.buf) >= 10
    /\ input[1] >= 128
    /\ vres.res.kind = "Ok"
    /\ vres.res.rest.lo \in 2..9

(***************************************************************************)
(* What a tag is, stated on the bytes at the cursor of the last call       *)
(***************************************************************************)
Called == last.res.kind # "Start"

\* The bytes the last call of Fields::next started from.
CursorBytes == Bytes(input, last.from)

\* The tag varint at that cursor, when there is a well-formed one.
TagLen == WfLen(CursorBytes)
TagAtCursor == WfValue(CursorBytes, TagLen)
HasTag == Called /\ TagLen > 0

\* tag >> 3 and tag & 7.
TagNumber == {n - 3 : n \in {m \in TagAtCursor : m >= 3}}
TagWireType ==
    (IF 0 \in TagAtCursor THEN 1 ELSE 0) + (IF 1 \in TagAtCursor THEN 2 ELSE 0)
    + (IF 2 \in TagAtCursor THEN 4 ELSE 0)

\* The bytes after the tag.
AfterTag == SubSeq(CursorBytes, TagLen + 1, Len(CursorBytes))

\* The variant each wire type stands for.
VariantOfWireType(w) ==
    CASE w = 0 -> "Varint"
      [] w = 1 -> "Fixed64"
      [] w = 2 -> "LengthDelimited"
      [] w = 3 -> "StartGroup"
      [] w = 4 -> "EndGroup"
      [] w = 5 -> "Fixed32"
      [] OTHER -> "none"

\* The 64-bit value v exceeds the number n.
Exceeds(v, n) == (\E k \in v : k >= 30) \/ ToNat(v) > n

(***************************************************************************)
(* C4                                                                      *)
(***************************************************************************)
\* C4: for a tag with field number >= 1, a successful step of Fields::next
\* yields number = tag >> 3 and the variant of the tag's low 3 bits (0 Varint,
\* 1 Fixed64, 2 LengthDelimited, 3 StartGroup, 4 EndGroup, 5 Fixed32); the
\* group markers always succeed and consume the tag only; wire types 6 and 7
\* always yield an error, whatever bytes follow.
C4_WireTypeDispatch ==
    (HasTag /\ TagNumber # {}) =>
        /\ last.res.kind = "Field" =>
              /\ last.res.field.number = TagNumber
              /\ last.res.field.value.variant = VariantOfWireType(TagWireType)
        /\ TagWireType \in {3, 4} =>
              /\ last.res.kind = "Field"
              /\ fbuf = Slice(last.from.lo + TagLen, last.from.hi)
        /\ TagWireType \in {6, 7} => last.res.kind = "Err"

\* A field with a 10-byte tag (a field number of 61 bits) was yielded.
C4_Witness ==
    /\ HasTag
    /\ TagLen = 10
    /\ last.res.kind = "Field"
    /\ 60 \in last.res.field.number

(***************************************************************************)
(* C5                                                                      *)
(***************************************************************************)
\* C5: when the tag at the cursor has field number 0 (a tag value below 8,
\* non-minimal encodings included), Fields::next yields an error for every
\* wire type and whatever bytes follow; no yielded Field has number 0.
C5_FieldNumberZero ==
    /\ (HasTag /\ TagNumber = {}) => last.res.kind = "Err"
    /\ \A i \in 1..Len(yielded) : yielded[i].number # {}

\* Field number 0 in a two-byte tag, with bytes after it.
C5_Witness ==
    /\ HasTag
    /\ TagLen = 2
    /\ TagNumber = {}
    /\ Len(AfterTag) > 0
    /\ last.res.kind = "Err"

(***************************************************************************)
(* C6                                                                      *)
(***************************************************************************)
\* C6: a field whose payload needs more bytes than remain after its tag
\* yields an error (wire type 1 with fewer than 8 bytes, wire type 5 with
\* fewer than 4, wire type 2 with a declared length above the bytes left
\* after the length prefix, for lengths up to 2^64 - 1); a Fixed64 or Fixed32
\* that is yielded holds the 8 or 4 bytes after the tag, and a
\* LengthDelimited that is yielded views exactly the declared number of
\* bytes after the length prefix.
C6_PayloadBounds ==
    (HasTag /\ TagNumber # {}) =>
        LET rem == Len(AfterTag)
            kl == WfLen(AfterTag)
            declared == WfValue(AfterTag, kl)
            val == last.res.field.value
        IN  /\ (TagWireType = 1 /\ rem < 8) => last.res.kind = "Err"
            /\ (TagWireType = 5 /\ rem < 4) => last.res.kind = "Err"
            /\ (TagWireType = 2 /\ kl > 0 /\ Exceeds(declared, rem - kl)) =>
                  last.res.kind = "Err"
            /\ (last.res.kind = "Field" /\ TagWireType = 1) =>
                  val.bytes = SubSeq(AfterTag, 1, 8) /\ Len(val.bytes) = 8
            /\ (last.res.kind = "Field" /\ TagWireType = 5) =>
                  val.bytes = SubSeq(AfterTag, 1, 4) /\ Len(val.bytes) = 4
            /\ (last.res.kind = "Field" /\ TagWireType = 2) =>
                  /\ kl > 0
                  /\ ~Exceeds(declared, rem - kl)
                  /\ val.buf.lo = last.from.lo + TagLen + kl
                  /\ val.buf.hi = val.buf.lo + ToNat(declared)
                  /\ fbuf = Slice(val.buf.hi, last.from.hi)

\* A declared length of 2^32 with bytes left to view: an error.
C6_Witness ==
    /\ HasTag
    /\ TagNumber # {}
    /\ TagWireType = 2
    /\ WfLen(AfterTag) = 5
    /\ WfValue(AfterTag, 5) = {32}
    /\ Len(AfterTag) > 5
    /\ last.res.kind = "Err"

(***************************************************************************)
(* C8                                                                      *)
(***************************************************************************)
\* C8: when Fields::next yields an error the cursor is where it was before
\* the call, and every later call yields the error again: never a field,
\* never None, and the cursor never moves.
C8_ErrorIsTerminal ==
    /\ [](last.res.kind = "Err" => fbuf = last.from)
    /\ [][last.res.kind = "Err" =>
             /\ last'.res.kind = "Err"
             /\ fbuf' = fbuf
             /\ yielded' = yielded]_vars

\* An error after a yielded field, in the payload after a tag, and the call
\* made again.
C8_Witness ==
    /\ last.res.kind = "Err"
    /\ last.again = 2
    /\ Len(yielded) >= 1
    /\ TagLen > 0
    /\ TagNumber # {}

(***************************************************************************)
(* C9                                                                      *)
(***************************************************************************)
\* C9: on an empty remaining view Fields::next returns None, not an error
\* (the first call on an empty buffer, the call after the last field), and
\* after a None every later call returns None.
C9_NoneWhenEmpty ==
    /\ [](Called => (SLen(last.from) = 0 <=> last.res.kind = "None"))
    /\ [][last.res.kind = "None" =>
             /\ last'.res.kind = "None"
             /\ fbuf' = fbuf
             /\ yielded' = yielded]_vars

\* None after the last field of a buffer, and None again.
C9_Witness ==
    /\ last.res.kind = "None"
    /\ last.again = 2
    /\ Len(yielded) >= 2

(***************************************************************************)
(* C7                                                                      *)
(***************************************************************************)
\* What a yielded field holds: its number, its variant, and the value of a
\* Varint or the bytes of a Fixed32, Fixed64 or LengthDelimited.
FieldView(f) ==
    Expect(f.number, f.value.variant,
           CASE f.value.variant = "Varint" -> f.value.value
             [] f.value.variant \in {"Fixed32", "Fixed64"} -> f.value.bytes
             [] f.value.variant = "LengthDelimited" -> Bytes(input, f.value.buf)
             [] OTHER -> <<>>)

\* The length of the first n encodings of a sequence of byte strings.
RECURSIVE LenOfFirst(_, _)
LenOfFirst(encs, n) ==
    IF n = 0 THEN 0 ELSE Len(encs[n]) + LenOfFirst(encs, n - 1)

PreEncs == [i \in 1..Len(parts.pre) |-> parts.pre[i].enc]

\* C7: on a buffer e_1 ++ ... ++ e_(K-1) ++ rest, with e_i the encoding of
\* the field f_i, the first K-1 calls of Fields::next yield f_1 .. f_(K-1) in
\* buffer order, each with its number and value, whatever the rest is, the
\* cursor standing after e_i when f_i is yielded; the K-th call yields None
\* when the rest is empty and an error when it begins with a malformed field.
\* 08 01 10 02 yields (1, Varint(1)), (2, Varint(2)), then None.
C7_FieldsInOrder ==
    LET n == Len(parts.pre)
    IN  /\ \A i \in 1..n : i <= Len(yielded) => FieldView(yielded[i]) = parts.pre[i].view
        /\ Len(yielded) <= n => fbuf = Slice(LenOfFirst(PreEncs, Len(yielded)), Len(input))
        /\ (Called /\ last.res.kind # "Field") =>
              /\ Len(yielded) >= n
              /\ parts.rest.kind = "empty" =>
                    Len(yielded) = n /\ last.res.kind = "None"
              /\ parts.rest.kind = "malformed" =>
                    Len(yielded) = n /\ last.res.kind = "Err"
        /\ (input = <<8, 1, 16, 2>> /\ Called /\ last.res.kind # "Field") =>
              /\ yielded = <<Field(U64(1), FvVarint(U64(1))),
                             Field(U64(2), FvVarint(U64(2)))>>
              /\ last.res.kind = "None"

\* Two fields of the same number were yielded one by one, and the third call
\* failed on a malformed rest.
C7_Witness ==
    /\ Len(parts.pre) = 2
    /\ parts.pre[1].view.number = parts.pre[2].view.number
    /\ parts.pre[1].view # parts.pre[2].view
    /\ parts.rest.kind = "malformed"
    /\ Len(yielded) = 2
    /\ last.res.kind = "Err"

(***************************************************************************)
(* C10                                                                     *)
(***************************************************************************)
PCalled == plast.res.kind # "Start"

WidthOf(get_fn) == IF get_fn \in {"get_fixed32", "get_sfixed32", "get_float"} THEN 4 ELSE 8

\* The little-endian value of the w bytes of the buffer from position off
\* (counted from 0): bit n of it is bit n mod 8 of the byte n div 8.
LittleEndianAt(off, w) ==
    {n \in 0..(8 * w - 1) : (n % 8) \in ByteBits(input[off + (n \div 8) + 1])}

\* C11: a fixed-width packed iterator of element width w over a view of
\* length L yields floor(L / w) Ok values, the i-th decoded little-endian
\* from the bytes [i*w, (i+1)*w), and then returns None when L mod w = 0 (no
\* item and no error on an empty view) and an error when L mod w is not 0.
C11_PackedFixed ==
    LET w == WidthOf(pkind)
        L == Len(input)
    IN  /\ Len(pyielded) <= L \div w
        /\ \A i \in 1..Len(pyielded) : pyielded[i] = LittleEndianAt((i - 1) * w, w)
        /\ pbuf = Slice(w * Len(pyielded), L)
        /\ (PCalled /\ plast.res.kind # "Ok") =>
              /\ Len(pyielded) = L \div w
              /\ plast.res.kind = (IF L % w = 0 THEN "None" ELSE "Err")

\* Two doubles were yielded and the short tail gave an error.
C11_Witness ==
    /\ pkind = "get_double"
    /\ Len(input) % 8 # 0
    /\ Len(pyielded) = 2
    /\ pyielded[1] # pyielded[2]
    /\ plast.res.kind = "Err"

(***************************************************************************)
(* Repeated adapters                                                       *)
(***************************************************************************)
\* C12: an adapter made as Repeated::Value(Some(v)) returns Ok(v) from its
\* first call of next and None from every later call, so v is yielded once.
C12_ValueOnce ==
    \A i \in DOMAIN reps :
        reps[i].made.tag = "Value" =>
            /\ reps[i].made.v.some
            /\ \A k \in DOMAIN reps[i].hist :
                  reps[i].hist[k] = IF k = 1
                                    THEN [kind |-> "Ok", item |-> reps[i].made.v.val]
                                    ELSE [kind |-> "None"]

C12_Witness ==
    \E i \in DOMAIN reps :
        /\ reps[i].made.tag = "Value"
        /\ Len(reps[i].hist) >= 3
        /\ reps[i].hist[3].kind = "None"

\* The wire-type family of the scalar type named by get_fn.
FamilyOf(get_fn) ==
    CASE get_fn \in {"get_bool", "get_enum", "get_int32", "get_int64",
                     "get_sint32", "get_sint64", "get_uint32", "get_uint64"} -> "Varint"
      [] get_fn \in {"get_fixed64", "get_sfixed64", "get_double"} -> "Fixed64"
      [] get_fn \in {"get_fixed32", "get_sfixed32", "get_float"} -> "Fixed32"
      [] OTHER -> "LengthDelimited"

\* The adapters made from the occurrence that is not packed (field 1 of the
\* input) and from the packed one (field 2).
AdaptersOn(k) == {i \in DOMAIN reps : reps[i].on = k}

\* C13: with the element of a repeated field of type X encoded once not
\* packed and once as a packed run of that one element, get_repeated_X gives
\* on both occurrences the same sequence: one Ok value, then None.
C13_PackedEquivalence ==
    parts.rest.kind = FamilyOf(pkind) =>
        /\ acc # NotCalled => acc.kind = "Ok"
        /\ \A i \in AdaptersOn(1), j \in AdaptersOn(2) :
              /\ reps[i].made.tag = "Value"
              /\ reps[j].made.tag = "Packed"
              /\ \A k \in DOMAIN reps[i].hist \cap DOMAIN reps[j].hist :
                    reps[i].hist[k] = reps[j].hist[k]
              /\ \A k \in DOMAIN reps[j].hist :
                    reps[j].hist[k].kind = IF k = 1 THEN "Ok" ELSE "None"
              /\ \A k \in DOMAIN reps[i].hist :
                    reps[i].hist[k].kind = IF k = 1 THEN "Ok" ELSE "None"

C13_Witness ==
    /\ parts.rest.kind = FamilyOf(pkind)
    /\ pkind = "get_sint32"
    /\ \E i \in AdaptersOn(1), j \in AdaptersOn(2) :
          /\ Len(reps[i].hist) >= 2
          /\ Len(reps[j].hist) >= 2
          /\ reps[j].hist[1] = [kind |-> "Ok", item |-> 0..31]

(***************************************************************************)
(* Nested messages                                                         *)
(***************************************************************************)
\* What a call of next returned, as seen by a caller holding `data`: the
\* kind, and for a field its number, variant and content.
ItemView(data, r) ==
    IF r.kind = "Field"
    THEN [kind |-> "Field",
          view |-> Expect(r.field.number, r.field.value.variant,
                      CASE r.field.value.variant = "Varint" -> r.field.value.value
                        [] r.field.value.variant \in {"Fixed32", "Fixed64"} ->
                              r.field.value.bytes
                        [] r.field.value.variant = "LengthDelimited" ->
                              Bytes(data, r.field.value.buf)
                        [] OTHER -> <<>>)]
    ELSE [kind |-> r.kind]

\* The first n items of Message::new(data).fields(), from the view buf on.
RECURSIVE RunFrom(_, _, _)
RunFrom(data, buf, n) ==
    IF n = 0 THEN <<>>
    ELSE LET r == try_next(data, buf)
         IN  <<ItemView(data, r)>> \o RunFrom(data, r.buf, n - 1)

NestedCursors == {i \in DOMAIN cursors : cursors[i].how[1] = "nested"}

\* The payload of the field nested cursor i was made from.
PayloadOf(i) == Bytes(input, cursors[i].how[2].value.buf)

\* C14: get_message().fields() on a length-delimited field with payload B
\* yields, item for item, fields and errors alike, what
\* Message::new(B).fields() yields on B as the whole input; a step of the
\* nested cursor leaves the outer cursor where it is, and a step of the outer
\* cursor leaves the nested ones where they are.
C14_NestedAsTopLevel ==
    /\ [](\A i \in NestedCursors :
             [k \in DOMAIN cursors[i].hist |-> ItemView(input, cursors[i].hist[k])]
                = RunFrom(PayloadOf(i), Whole(PayloadOf(i)), Len(cursors[i].hist)))
    /\ [][/\ (\E i \in DOMAIN cursors : cursors'[i] # cursors[i]) =>
                (fbuf' = fbuf /\ last' = last /\ yielded' = yielded)
          /\ (fbuf' # fbuf \/ last' # last) => cursors' = cursors]_vars

\* A nested scan that yielded a field and then an error inside its payload,
\* with the outer cursor stepped on behind the payload.
C14_Witness ==
    /\ \E i \in NestedCursors :
          /\ Len(cursors[i].hist) >= 2
          /\ cursors[i].hist[1].kind = "Field"
          /\ cursors[i].hist[2].kind = "Err"
          /\ fbuf.lo > cursors[i].how[2].value.buf.hi
    /\ Len(yielded) = 2

(***************************************************************************)
(* Accessors                                                               *)
(***************************************************************************)
\* The variant of the one field of an accessor input, from its tag byte.
VariantOfInput == VariantOfWireType(input[1] % 8)

AllAccessors ==
    {"get_bool", "get_enum", "get_int32", "get_int64", "get_sint32", "get_sint64",
     "get_uint32", "get_uint64", "get_fixed64", "get_sfixed64", "get_double",
     "get_fixed32", "get_sfixed32", "get_float", "get_bytes", "get_message",
     "get_string"}

\* UTF-8 stated on code points: a lead byte 0xxxxxxx, 110xxxxx, 1110xxxx or
\* 11110xxx announces 0 to 3 continuation bytes 10xxxxxx; the payload bits
\* put together give the code point.
Utf8Len(b) ==
    IF b < 128 THEN 1
    ELSE IF b >= 192 /\ b < 224 THEN 2
    ELSE IF b >= 224 /\ b < 240 THEN 3
    ELSE IF b >= 240 /\ b < 248 THEN 4
    ELSE 0

Utf8LeadBits(b, n) ==
    CASE n = 1 -> b
      [] n = 2 -> b - 192
      [] n = 3 -> b - 224
      [] n = 4 -> b - 240

RECURSIVE Utf8CodePoint(_, _, _, _)
Utf8CodePoint(bs, i, n, sofar) ==
    IF n = 0 THEN sofar
    ELSE Utf8CodePoint(bs, i + 1, n - 1, sofar * 64 + (bs[i] - 128))

\* The least code point that needs n bytes.
Utf8Least(n) == CASE n = 1 -> 0 [] n = 2 -> 128 [] n = 3 -> 2048 [] n = 4 -> 65536

\* bs is valid UTF-8 from position i on: every character is complete, in
\* its shortest form, not a surrogate (D800..DFFF) and at most U+10FFFF.
RECURSIVE ValidUtf8From(_, _)
ValidUtf8From(bs, i) ==
    IF i > Len(bs) THEN TRUE
    ELSE LET n == Utf8Len(bs[i])
         IN  /\ n > 0
             /\ i + n - 1 <= Len(bs)
             /\ \A k \in 1..(n - 1) : bs[i + k] >= 128 /\ bs[i + k] < 192
             /\ LET cp == Utf8CodePoint(bs, i + 1, n - 1, Utf8LeadBits(bs[i], n))
                IN  /\ cp >= Utf8Least(n)
                    /\ cp < 55296 \/ cp > 57343
                    /\ cp <= 1114111
             /\ ValidUtf8From(bs, i + n)

\* The payload of the one length-delimited field of an accessor input.
PayloadOfInput == SubSeq(input, 3, Len(input))

\* C15 as stated: every scalar accessor, get_string among them, returns Ok
\* exactly on the variant of its wire-type family.
C15_AsStated ==
    (acc # NotCalled /\ acc.call = "get") =>
        (acc.kind = "Ok" <=> VariantOfInput = FamilyOf(acc.get_fn))

\* C15: a scalar accessor of FieldValue returns Ok exactly on the variant of
\* its wire-type family and Err on every other variant, get_string
\* returning Ok on a LengthDelimited exactly when the payload is valid
\* UTF-8; get_repeated_X returns Ok exactly on the family of X and on
\* LengthDelimited; on StartGroup and EndGroup every accessor fails.
C15_AccessorFamilies ==
    acc # NotCalled =>
        /\ acc.get_fn \in AllAccessors
        /\ acc.kind \in {"Ok", "Err"}
        /\ acc.call = "get" =>
              (acc.kind = "Ok" <=>
                  /\ VariantOfInput = FamilyOf(acc.get_fn)
                  /\ acc.get_fn = "get_string" => ValidUtf8From(PayloadOfInput, 1))
        /\ acc.call = "get_repeated" =>
              (acc.kind = "Ok" <=>
                  VariantOfInput \in {FamilyOf(acc.get_fn), "LengthDelimited"})
        /\ VariantOfInput \in {"StartGroup", "EndGroup"} => acc.kind = "Err"

\* A string asked from a Varint.
C15_Witness ==
    /\ acc # NotCalled
    /\ acc.call = "get"
    /\ acc.get_fn = "get_string"
    /\ VariantOfInput = "Varint"
    /\ acc.kind = "Err"

(***************************************************************************)
(* Zigzag                                                                  *)
(***************************************************************************)
\* The zigzag encoding of the w-bit two's complement x:
\* (x << 1) XOR (x >> (w - 1)), the shift right arithmetic, modulo 2^w.
ZigzagEncode(x, w) ==
    LET shifted == {j + 1 : j \in {k \in x : k + 1 < w}}
        sign == IF (w - 1) \in x THEN 0..(w - 1) ELSE {}
    IN  (shifted \ sign) \cup (sign \ shifted)

\* The 64-bit two's complement of the 32-bit two's complement x.
SignExtend(x) == x \cup (IF 31 \in x THEN 32..63 ELSE {})

\* 0 -> 0, 1 -> -1, 2 -> 1, 3 -> -2 and 2^w - 1 -> -2^(w-1).
ZigzagPoints(w) ==
    {<<{}, {}>>, <<{0}, 0..(w - 1)>>, <<{1}, {0}>>, <<{0, 1}, 1..(w - 1)>>,
     <<0..(w - 1), {w - 1}>>}

\* C16: decode_32(n) is the 32-bit x whose zigzag encoding is n, and every
\* 32-bit x is the decode_32 of its encoding, so that decode_32 is
\* one-to-one and onto, with 0 -> 0, 1 -> -1, 2 -> 1, 3 -> -2
\* and 0xFFFFFFFF -> -2^31; the same for decode_64 on 64 bits; and for
\* n >= 2^32 decode_64(n) is no 32-bit value, so it is not what decode_32
\* gives on the low half of n.
C16_ZigzagInverse ==
    /\ acc # NotCalled /\ acc.call = "decode_32" =>
          /\ acc.res \subseteq 0..31
          /\ ZigzagEncode(acc.res, 32) = acc.arg
          /\ \A p \in ZigzagPoints(32) : acc.arg = p[1] => acc.res = p[2]
          /\ zigzag_decode_32(ZigzagEncode(acc.arg, 32)) = acc.arg
    /\ acc # NotCalled /\ acc.call = "decode_64" =>
          /\ acc.res \subseteq 0..63
          /\ ZigzagEncode(acc.res, 64) = acc.arg
          /\ \A p \in ZigzagPoints(64) : acc.arg = p[1] => acc.res = p[2]
          /\ zigzag_decode_64(ZigzagEncode(acc.arg, 64)) = acc.arg
          /\ (\E k \in acc.arg : k >= 32) =>
                /\ acc.res # SignExtend(acc.res \cap (0..31))
                /\ acc.res # SignExtend(zigzag_decode_32(acc.arg \cap (0..31)))

\* decode_64 of an odd argument above 2^32.
C16_Witness ==
    /\ acc # NotCalled
    /\ acc.call = "decode_64"
    /\ acc.arg = {0, 32}
    /\ acc.res = (0..63) \ {31}

(***************************************************************************)
(* Varint accessors                                                        *)
(***************************************************************************)
\* The payload v of the one Varint field of an accessor input, from the
\* bytes after the tag, and v mod 2^32.
VarintOfInput == WfValue(Tail(input), WfLen(Tail(input)))
LowHalfOfInput == {k \in VarintOfInput : k < 32}

\* C17: on a Varint with payload v no accessor of the varint family fails,
\* and get_bool = (v # 0), get_uint64 = v, get_uint32 = v mod 2^32,
\* get_int64 = the 64 bits of v as two's complement, get_int32 and get_enum
\* = the low 32 bits of v as two's complement whatever the upper bits,
\* get_sint64 = the value whose 64-bit zigzag encoding is v, get_sint32 =
\* the value whose 32-bit zigzag encoding is v mod 2^32.
C17_VarintAccessors ==
    (/\ acc # NotCalled
     /\ acc.call = "get"
     /\ VariantOfInput = "Varint"
     /\ FamilyOf(acc.get_fn) = "Varint") =>
        /\ acc.kind = "Ok"
        /\ CASE acc.get_fn = "get_bool" -> acc.res.val = (VarintOfInput # {})
             [] acc.get_fn = "get_uint64" -> acc.res.val = VarintOfInput
             [] acc.get_fn = "get_uint32" -> acc.res.val = LowHalfOfInput
             [] acc.get_fn = "get_int64" -> acc.res.val = VarintOfInput
             [] acc.get_fn = "get_int32" -> acc.res.val = LowHalfOfInput
             [] acc.get_fn = "get_enum" -> acc.res.val = LowHalfOfInput
             [] acc.get_fn = "get_sint64" ->
                   /\ acc.res.val \subseteq 0..63
                   /\ ZigzagEncode(acc.res.val, 64) = VarintOfInput
             [] acc.get_fn = "get_sint32" ->
                   /\ acc.res.val \subseteq 0..31
                   /\ ZigzagEncode(acc.res.val, 32) = LowHalfOfInput

\* get_sint32 on 0x1FFFFFFFE: the low half decodes to 2^31 - 1.
C17_Witness ==
    /\ acc # NotCalled
    /\ acc.call = "get"
    /\ acc.get_fn = "get_sint32"
    /\ input = <<8, 254, 255, 255, 255, 31>>
    /\ acc.res = [kind |-> "Ok", val |-> 0..30]

(***************************************************************************)
(* Bytes and strings                                                       *)
(***************************************************************************)
\* An accessor call on the one length-delimited field of the input.
OnPayload(a, get_fn) ==
    /\ a # NotCalled
    /\ a.call = "get"
    /\ a.get_fn = get_fn
    /\ VariantOfInput = "LengthDelimited"

\* C18: on a length-delimited value with payload B, get_bytes returns B;
\* get_string returns Ok with the bytes B when B is valid UTF-8 and Err,
\* not a panic, when it is not ("hello" with a byte replaced by a stray
\* continuation byte), and get_bytes called on that value after the failed
\* get_string still returns B.
C18_BytesAndString ==
    /\ [](OnPayload(acc, "get_bytes") =>
             /\ acc.kind = "Ok"
             /\ Bytes(input, acc.res.val) = PayloadOfInput
             /\ acc.res.val = Slice(2, Len(input)))
    /\ [](OnPayload(acc, "get_string") =>
             IF ValidUtf8From(PayloadOfInput, 1)
             THEN /\ acc.kind = "Ok"
                  /\ Bytes(input, acc.res.val) = PayloadOfInput
             ELSE acc.res = [kind |-> "Err"])
    /\ [][(/\ OnPayload(acc, "get_string")
           /\ acc.kind = "Err"
           /\ OnPayload(acc', "get_bytes")) =>
              (acc'.kind = "Ok" /\ Bytes(input, acc'.res.val) = PayloadOfInput)]_vars

\* get_string failing on "hello" with its second byte replaced by 0x80.
C18_Witness ==
    /\ OnPayload(acc, "get_string")
    /\ PayloadOfInput = <<104, 128, 108, 108, 111>>
    /\ acc.kind = "Err"

(***************************************************************************)
(* Several cursors                                                         *)
(***************************************************************************)
\* C19: of the cursors over one buffer, made by Message::fields or by
\* clone and stepped in any order, each has yielded what a cursor stepped
\* alone from its starting point yields; a cursor made by Message::fields
\* starts at offset 0; a step of one cursor changes that cursor only, and
\* no step changes the buffer.
C19_IndependentCursors ==
    /\ [](\A i \in DOMAIN cursors :
             /\ [k \in DOMAIN cursors[i].hist |-> ItemView(input, cursors[i].hist[k])]
                   = RunFrom(input, cursors[i].start, Len(cursors[i].hist))
             /\ cursors[i].how[1] = "fields" =>
                   cursors[i].start = Slice(0, Len(input)))
    /\ [][/\ input' = input
          /\ \A i \in DOMAIN cursors :
                cursors'[i] # cursors[i] =>
                    /\ \A j \in DOMAIN cursors \ {i} : cursors'[j] = cursors[j]
                    /\ fbuf' = fbuf /\ last' = last /\ yielded' = yielded
          /\ (fbuf' # fbuf \/ last' # last) =>
                \A j \in DOMAIN cursors : cursors'[j] = cursors[j]]_vars

\* A cursor from Message::fields and a clone, both stepped and standing at
\* different places, the first cursor stepped as well.
C19_Witness ==
    /\ fbuf.lo > 0
    /\ \E i, j \in DOMAIN cursors :
          /\ cursors[i].how[1] = "fields"
          /\ cursors[j].how[1] = "clone"
          /\ cursors[j].start.lo > 0
          /\ Len(cursors[i].hist) >= 2
          /\ Len(cursors[j].hist) >= 1
          /\ cursors[i].buf # cursors[j].buf

(***************************************************************************)
(* Safety                                                                  *)
(***************************************************************************)
\* The positions of the buffer a view covers.
Positions(s) == {p \in 0..(Len(input) - 1) : s.lo <= p /\ p < s.hi}

\* s is a suffix of the buffer; s is a part of the view t.
IsSuffix(s) == 0 <= s.lo /\ s.lo <= s.hi /\ s.hi = Len(input)
IsWithin(s, t) == t.lo <= s.lo /\ s.lo <= s.hi /\ s.hi <= t.hi

\* The varint reads of a call: the one at the view the call started from
\* and, after a tag, the one behind it. Each inspects positions of its own
\* view only and does not panic.
VarintReadsInside(from) ==
    SLen(from) > 0 =>
        LET r == read_varint(input, from)
        IN  /\ r.kind # "Panic"
            /\ r.reads \subseteq Positions(from)
            /\ r.kind = "Ok" =>
                  LET q == read_varint(input, r.rest)
                  IN  /\ q.kind # "Panic"
                      /\ q.reads \subseteq Positions(r.rest)

\* C20: on every buffer and after every sequence of calls, Fields::next and
\* the packed iterators' next have returned a field or value, an error or
\* None, never a panic of an index or an unwrap; the varint reads stay inside
\* the view they are made on; the remaining view of each is a suffix of the
\* buffer; and a yielded LengthDelimited view is a range of the buffer,
\* inside the view the call started from and in front of the view it left.
C20_Safety ==
    /\ last.res.kind \in {"Start", "None", "Field", "Err"}
    /\ plast.res.kind \in {"Start", "None", "Ok", "Err"}
    /\ IsSuffix(fbuf)
    /\ IsSuffix(pbuf)
    /\ Called =>
          /\ IsSuffix(last.from)
          /\ IsWithin(fbuf, last.from)
          /\ VarintReadsInside(last.from)
          /\ last.res.kind = "Field" /\ last.res.field.value.variant = "LengthDelimited" =>
                /\ IsWithin(last.res.field.value.buf, last.from)
                /\ last.res.field.value.buf.hi = fbuf.lo
          /\ last.res.kind = "Field" /\ last.res.field.value.variant = "Fixed64" =>
                fbuf.lo - last.from.lo >= 9
          /\ last.res.kind = "Field" /\ last.res.field.value.variant = "Fixed32" =>
                fbuf.lo - last.from.lo >= 5
    /\ PCalled =>
          /\ IsWithin(pbuf, plast.from)
          /\ pkind = "get_uint64" => VarintReadsInside(plast.from)
    /\ \A k \in DOMAIN yielded :
          yielded[k].value.variant = "LengthDelimited" =>
              IsWithin(yielded[k].value.buf, Whole(input))

\* A length-delimited field whose length is the whole rest of the buffer,
\* yielded, and then an error on a length beyond the buffer; the packed
\* iterator has ended in an error as well.
C20_Witness ==
    /\ Len(yielded) >= 1
    /\ yielded[1].value.variant = "LengthDelimited"
    /\ last.res.kind = "Err"
    /\ SLen(last.from) >= 2
    /\ At(input, last.from, 0) = 10
    /\ At(input, last.from, 1) > SLen(last.from)
    /\ plast.res.kind = "Err"

(***************************************************************************)
(* Progress                                                                *)
(***************************************************************************)
\* C21: a step of the Fields cursor or of a packed iterator that returns a
\* field or a value leaves a remaining view at least 1 byte shorter, and no
\* step leaves a longer one; so over a buffer of n bytes each has yielded at
\* most n items (at most as many as the bytes it has gone over), and the
\* first Err or None, after which a consumer stops, comes with call n + 1
\* at the latest.
C21_Progress ==
    /\ [](/\ Len(yielded) <= fbuf.lo
          /\ Len(yielded) <= Len(input)
          /\ Len(pyielded) <= pbuf.lo
          /\ Len(pyielded) <= Len(input)
          /\ (last.res.kind \in {"None", "Err"} /\ last.again = 1) =>
                Len(yielded) + 1 <= Len(input) + 1
          /\ (plast.res.kind \in {"None", "Err"} /\ plast.again = 1) =>
                Len(pyielded) + 1 <= Len(input) + 1)
    /\ [][/\ SLen(fbuf') <= SLen(fbuf)
          /\ SLen(pbuf') <= SLen(pbuf)
          /\ (last' # last /\ last'.res.kind = "Field") =>
                /\ SLen(fbuf') + 1 <= SLen(fbuf)
                /\ Len(yielded') = Len(yielded) + 1
          /\ (plast' # plast /\ plast'.res.kind = "Ok") =>
                /\ SLen(pbuf') + 1 <= SLen(pbuf)
                /\ Len(pyielded') = Len(pyielded) + 1
          /\ (last' # last /\ last'.res.kind # "Field") =>
                (yielded' = yielded /\ last'.again = last.again + 1)
          /\ (plast' # plast /\ plast'.res.kind # "Ok") =>
                (pyielded' = pyielded /\ plast'.again = plast.again + 1)]_vars

\* A buffer of n group markers, one byte each: n fields yielded, and the
\* None that ends the scan returned by call n + 1.
C21_Witness ==
    /\ Len(input) >= 2
    /\ Len(yielded) = Len(input)
    /\ last.res.kind = "None"
    /\ last.again = 1

====
